---- MODULE Spec2Model ----
(***************************************************************************)
(* The SQL-to-flow-graph compiler of viewsql: sqlToFlowGraph and its       *)
(* FlowGraphBuilder (my-app/src/lib/sql/ast-to-graph.ts), the expression   *)
(* helpers (expr-utils.ts) and computeColumnLineage / traceColumn.         *)
(*                                                                         *)
(* One call of sqlToFlowGraph(sql, schema) is run on an input drawn from   *)
(* a bounded set of statements; the builder object is the record           *)
(* `builder`, whose fields carry the names of the class fields.            *)
(***************************************************************************)
EXTENDS Integers, Sequences, FiniteSets, TLC

VARIABLES ast, schema, pc, bindIdx, builder, exc, result, lineage

\* The canvas component that calls the compiler and the layout engine: the
\* query it was last given, what it shows, the error it last reported, its
\* layout requests, the module-level solver instance of layout.ts, the number
\* of solver constructions, the compiler calls it has made and their number.
VARIABLES sql, display, shownError, layoutCalls, elkInstance, elkConstructed,
          builds, updates

canvasVars ==
  <<sql, display, shownError, layoutCalls, elkInstance, elkConstructed, builds, updates>>

vars == <<ast, schema, pc, bindIdx, builder, exc, result, lineage, canvasVars>>

\* JavaScript's undefined / null for an optional string.
None == "<undefined>"

\* ---------------------------------------------------------------------
\* Bounds of the input space
\* ---------------------------------------------------------------------
\* Largest number of bindings of a WITH clause.
MaxCtes == 2
\* Largest number of entries of a FROM list.
MaxFrom == 2
\* Depth of the call stack available to traceColumn before the engine
\* raises a RangeError (deeper than any finite trace of the inputs, whose
\* longest chain is MaxCtes + MaxFrom + 3 calls).
MaxDepth == 10

\* ---------------------------------------------------------------------
\* Expression trees of the parser (pgsql-ast-parser Expr)
\* ---------------------------------------------------------------------
NoExpr == [type |-> None]
Ref(tbl, nm) == [type |-> "ref", table |-> tbl, name |-> nm, args |-> <<>>]
Call(fn, as) == [type |-> "call", table |-> None, name |-> fn, args |-> as]
Binary(op, l, r) == [type |-> "binary", table |-> None, name |-> op, args |-> <<l, r>>]
IntLit(v) == [type |-> "integer", table |-> None, name |-> ToString(v), args |-> <<>>, value |-> v]
StrLit(s) == [type |-> "string", table |-> None, name |-> s, args |-> <<>>]

AGGREGATE_FUNCTIONS ==
  {"count", "sum", "avg", "min", "max", "array_agg", "string_agg",
   "bool_and", "bool_or", "json_agg", "jsonb_agg"}

\* String.prototype.toLowerCase on the function names that occur.
toLowerCase(s) ==
  CASE s = "SUM" -> "sum"
    [] s = "COUNT" -> "count"
    [] s = "UPPER" -> "upper"
    [] OTHER -> s

RECURSIVE JoinStrings(_, _)
JoinStrings(strs, sep) ==
  IF strs = <<>> THEN ""
  ELSE IF Len(strs) = 1 THEN strs[1]
  ELSE strs[1] \o sep \o JoinStrings(Tail(strs), sep)

RECURSIVE toSqlExpr(_)
\* toSql.expr of the parser library; an expression it cannot render throws.
toSqlExpr(expr) ==
  CASE expr.type = "ref" ->
         [threw |-> FALSE,
          sql |-> IF expr.table # None THEN expr.table \o "." \o expr.name ELSE expr.name]
    [] expr.type = "integer" -> [threw |-> FALSE, sql |-> expr.name]
    [] expr.type = "string" -> [threw |-> FALSE, sql |-> "'" \o expr.name \o "'"]
    [] expr.type = "call" ->
         LET parts == [k \in 1..Len(expr.args) |-> toSqlExpr(expr.args[k])]
         IN IF \E k \in 1..Len(parts) : parts[k].threw
            THEN [threw |-> TRUE, sql |-> ""]
            ELSE [threw |-> FALSE,
                  sql |-> expr.name \o "(" \o
                          JoinStrings([k \in 1..Len(parts) |-> parts[k].sql], ", ") \o ")"]
    [] expr.type = "binary" ->
         LET l == toSqlExpr(expr.args[1])
             r == toSqlExpr(expr.args[2])
         IN IF l.threw \/ r.threw
            THEN [threw |-> TRUE, sql |-> ""]
            ELSE [threw |-> FALSE,
                  sql |-> "(" \o l.sql \o " " \o expr.name \o " " \o r.sql \o ")"]
    [] OTHER -> [threw |-> TRUE, sql |-> ""]

exprToSql(expr) ==
  LET r == toSqlExpr(expr) IN IF r.threw THEN "(expr)" ELSE r.sql

RECURSIVE extractColumnRefs(_)
RECURSIVE extractColumnRefsAll(_)
\* The visitor's walk over a list of sub-expressions, in order.
extractColumnRefsAll(exprs) ==
  IF exprs = <<>> THEN <<>>
  ELSE extractColumnRefs(Head(exprs)) \o extractColumnRefsAll(Tail(exprs))

extractColumnRefs(expr) ==
  IF expr.type = "ref"
  THEN <<[table |-> expr.table,
          column |-> IF expr.name = "*" THEN "*" ELSE expr.name]>>
  ELSE IF expr.type \in {"call", "binary"}
  THEN extractColumnRefsAll(expr.args)
  ELSE <<>>

RECURSIVE extractAggregates(_)
RECURSIVE extractAggregatesAll(_)
extractAggregatesAll(exprs) ==
  IF exprs = <<>> THEN <<>>
  ELSE extractAggregates(Head(exprs)) \o extractAggregatesAll(Tail(exprs))

extractAggregates(expr) ==
  IF expr.type = "call"
  THEN (IF toLowerCase(expr.name) \in AGGREGATE_FUNCTIONS
        THEN <<exprToSql(expr)>> ELSE <<>>)
       \o extractAggregatesAll(expr.args)
  ELSE IF expr.type = "binary"
  THEN extractAggregatesAll(expr.args)
  ELSE <<>>

\* ---------------------------------------------------------------------
\* FlowGraphBuilder
\* ---------------------------------------------------------------------
\* A JavaScript Map is a function on its key set; Map.set adds or replaces.
EmptyMap == [k \in {} |-> None]
MapSet(m, k, v) == [x \in (DOMAIN m) \cup {k} |-> IF x = k THEN v ELSE m[x]]
MapHas(m, k) == k \in DOMAIN m

\* new Map(schema.map(t => [t.name, t])): a later table of the same name wins.
RECURSIVE SchemaMapOf(_)
SchemaMapOf(tables) ==
  IF tables = <<>> THEN EmptyMap
  ELSE LET t == tables[Len(tables)]
           rest == SchemaMapOf(SubSeq(tables, 1, Len(tables) - 1))
       IN MapSet(rest, t.name, t)

\* The fields of a freshly constructed FlowGraphBuilder.
NewBuilder(sch) ==
  [nodes |-> <<>>,
   edges |-> <<>>,
   nodeCounter |-> 0,
   schemaMap |-> SchemaMapOf(sch),
   cteRegistry |-> EmptyMap,
   aliasRegistry |-> EmptyMap,
   tableColorMap |-> EmptyMap,
   tableColorCounter |-> 0,
   currentRefs |-> EmptyMap,
   currentShowAll |-> FALSE,
   currentCteGroupId |-> None]

\* nextId(prefix): the id, and the builder with the counter advanced.
nextId(b, prefix) ==
  [id |-> prefix \o "_" \o ToString(b.nodeCounter),
   b |-> [b EXCEPT !.nodeCounter = @ + 1]]

addNode_skipCte(b, node) ==
  LET tagged == IF b.currentCteGroupId # None /\ node.data.kind \notin {"cte-group", "cte"}
                THEN [node EXCEPT !.parentCteId = b.currentCteGroupId]
                ELSE node
  IN [b EXCEPT !.nodes = Append(@, tagged)]

addNode(b, node) ==
  LET tagged == IF b.currentCteGroupId # None /\ node.data.kind # "cte-group"
                THEN [node EXCEPT !.parentCteId = b.currentCteGroupId]
                ELSE node
  IN [b EXCEPT !.nodes = Append(@, tagged)]

addEdge(b, source, target, options) ==
  [b EXCEPT !.edges =
     Append(@, options @@ [id |-> "e_" \o source \o "_" \o target,
                           source |-> source,
                           target |-> target])]

getSchemaColumns(b, tableName) ==
  IF ~MapHas(b.schemaMap, tableName) THEN <<>>
  ELSE LET cols == b.schemaMap[tableName].columns
       IN [k \in 1..Len(cols) |->
             [name |-> cols[k].name,
              sourceTable |-> tableName,
              sourceColumn |-> cols[k].name,
              dataType |-> cols[k].dataType]]

\* The loop "Build lookup map" of collectReferencedColumns over allRefs:
\* it stops at the first unqualified wildcard.
RECURSIVE buildRefLookup(_, _)
buildRefLookup(allRefs, refs) ==
  IF allRefs = <<>> THEN [currentRefs |-> refs, currentShowAll |-> FALSE]
  ELSE LET ref == Head(allRefs) IN
       IF ref.column = "*"
       THEN IF ref.table # None
            THEN buildRefLookup(Tail(allRefs), MapSet(refs, ref.table, {"*"}))
            ELSE [currentRefs |-> refs, currentShowAll |-> TRUE]
       ELSE LET key == IF ref.table # None THEN ref.table ELSE "__unqualified__"
                existing == IF MapHas(refs, key) THEN refs[key] ELSE {}
            IN buildRefLookup(Tail(allRefs), MapSet(refs, key, existing \cup {ref.column}))

\* The JOIN ON conditions of the FROM entries that are tables, in order.
RECURSIVE joinOnExprs(_)
joinOnExprs(fromItems) ==
  IF fromItems = <<>> THEN <<>>
  ELSE LET item == Head(fromItems) IN
       (IF item.type = "table" /\ item.join.declared /\ item.join.on.type # None
        THEN <<item.join.on>> ELSE <<>>)
       \o joinOnExprs(Tail(fromItems))

collectReferencedColumns(b, select) ==
  LET cols == select.columns
      bare(k) == cols[k].expr.type = "ref" /\ cols[k].expr.name = "*"
                 /\ cols[k].expr.table = None
      allRefs ==
        extractColumnRefsAll([k \in 1..Len(cols) |-> cols[k].expr])
        \o extractColumnRefsAll(joinOnExprs(select.from))
        \o (IF select.where.type # None THEN extractColumnRefs(select.where) ELSE <<>>)
        \o extractColumnRefsAll(select.groupBy)
        \o extractColumnRefsAll([k \in 1..Len(select.orderBy) |-> select.orderBy[k].by])
      got == IF \E k \in 1..Len(cols) : bare(k)
             THEN [currentRefs |-> EmptyMap, currentShowAll |-> TRUE]
             ELSE buildRefLookup(allRefs, EmptyMap)
  IN [b EXCEPT !.currentRefs = got.currentRefs,
               !.currentShowAll = got.currentShowAll]

RefsHas(b, key, col) == MapHas(b.currentRefs, key) /\ col \in b.currentRefs[key]

\* References qualified by the alias are not looked at.
filterColumns_noAlias(b, columns, tableName, alias) ==
  IF b.currentShowAll THEN columns
  ELSE IF RefsHas(b, tableName, "*") THEN columns
  ELSE SelectSeq(columns,
         LAMBDA col : RefsHas(b, tableName, col.name)
                      \/ RefsHas(b, "__unqualified__", col.name))

filterColumns(b, columns, tableName, alias) ==
  IF b.currentShowAll THEN columns
  ELSE LET byAlias(c) == alias # None /\ RefsHas(b, alias, c)
           byName(c) == RefsHas(b, tableName, c)
           unqualified(c) == RefsHas(b, "__unqualified__", c)
       IN IF byAlias("*") \/ byName("*") THEN columns
          ELSE SelectSeq(columns,
                 LAMBDA col : byAlias(col.name) \/ byName(col.name) \/ unqualified(col.name))

resolveSelectColumns(select) ==
  LET cols == select.columns
      one(col) ==
        IF col.expr.type = "ref"
        THEN LET name == IF col.alias # None THEN col.alias ELSE col.expr.name
             IN [name |-> IF name = "*" THEN "*" ELSE name,
                 sourceTable |-> col.expr.table,
                 sourceColumn |-> IF col.expr.name = "*" THEN None ELSE col.expr.name]
        ELSE LET name == IF col.alias # None THEN col.alias ELSE exprToSql(col.expr)
                 refs == extractColumnRefs(col.expr)
             IN [name |-> name,
                 sourceTable |-> IF refs # <<>> THEN refs[1].table ELSE None,
                 sourceColumn |-> IF refs # <<>> THEN refs[1].column ELSE None]
  IN [k \in 1..Len(cols) |-> one(cols[k])]

\* [...new Set(items)]: the first occurrence of each item, in order.
RECURSIVE Dedup(_)
Dedup(items) ==
  IF items = <<>> THEN <<>>
  ELSE LET init == Dedup(SubSeq(items, 1, Len(items) - 1))
           x == items[Len(items)]
       IN IF \E k \in 1..Len(init) : init[k] = x THEN init ELSE Append(init, x)

\* (join.type ?? "INNER JOIN").replace(" JOIN", "").trim()
joinTypeOf(join) ==
  LET t == IF join.type # None THEN join.type ELSE "INNER JOIN"
  IN CASE t = "INNER JOIN" -> "INNER"
       [] t = "LEFT JOIN" -> "LEFT"
       [] t = "RIGHT JOIN" -> "RIGHT"
       [] t = "FULL JOIN" -> "FULL"
       [] t = "CROSS JOIN" -> "CROSS"
       [] OTHER -> t

\* The branch of processFrom for a FROM entry that names a registered CTE.
fromCteReference(b, tableName, alias) ==
  LET currentNodeId == b.cteRegistry[tableName]
      b1 == IF alias # None
            THEN LET b0 == [b EXCEPT !.aliasRegistry = MapSet(@, alias, currentNodeId)]
                 IN IF MapHas(b0.tableColorMap, tableName)
                    THEN [b0 EXCEPT !.tableColorMap =
                            MapSet(@, alias, b0.tableColorMap[tableName])]
                    ELSE b0
            ELSE b
  IN [b |-> b1, id |-> currentNodeId]

\* The new table-source node with id n.id, its color and its registrations.
fromTableNode(n, tableName, alias, colorIndex) ==
  [b |-> [addNode([n.b EXCEPT !.tableColorCounter = @ + 1,
                              !.tableColorMap =
                                IF alias # None
                                THEN MapSet(MapSet(@, tableName, colorIndex),
                                            alias, colorIndex)
                                ELSE MapSet(@, tableName, colorIndex)],
                  [id |-> n.id,
                   parentCteId |-> None,
                   data |-> [kind |-> "table-source",
                             tableName |-> tableName,
                             alias |-> alias,
                             columns |-> filterColumns(n.b, getSchemaColumns(n.b, tableName),
                                                       tableName, alias),
                             colorIndex |-> colorIndex]])
            EXCEPT !.aliasRegistry =
                     MapSet(@, IF alias # None THEN alias ELSE tableName, n.id)],
   id |-> n.id]

\* The branch of processFrom for a regular table: a new table-source node
\* with a color index of its own.
fromTableSource(b, tableName, alias) ==
  fromTableNode(nextId(b, "table"), tableName, alias, b.tableColorCounter)

\* The join node with id n.id and its two incoming edges.
fromJoinNode(n, join, conditionRefs, lastNodeId, currentNodeId) ==
  [b |-> addEdge(
           addEdge(
             addNode(n.b, [id |-> n.id,
                           parentCteId |-> None,
                           data |-> [kind |-> "join",
                                     joinType |-> joinTypeOf(join),
                                     condition |-> IF join.on.type # None
                                                   THEN exprToSql(join.on) ELSE ""]]),
             lastNodeId, n.id, [animated |-> TRUE, columns |-> conditionRefs]),
           currentNodeId, n.id, [animated |-> TRUE, columns |-> conditionRefs]),
   id |-> n.id]

\* extractColumnRefs(on).map(r => r.column)
refColumns(onRefs) == [k \in 1..Len(onRefs) |-> onRefs[k].column]

\* Both edges of the join node start at the entry's own node.
fromJoin_entryTwice(b, join, lastNodeId, currentNodeId) ==
  fromJoinNode(nextId(b, "join"), join,
               refColumns(IF join.on.type # None THEN extractColumnRefs(join.on) ELSE <<>>),
               currentNodeId, currentNodeId)

\* The join branch of processFrom: a join node fed by the chain and the entry.
fromJoin(b, join, lastNodeId, currentNodeId) ==
  fromJoinNode(nextId(b, "join"), join,
               refColumns(IF join.on.type # None THEN extractColumnRefs(join.on) ELSE <<>>),
               lastNodeId, currentNodeId)

\* The tail of one iteration of processFrom's loop: cur = [b, id] is the
\* entry's node; a join node is made when the entry declares a join and the
\* chain has a last node.
fromChain(cur, join, lastNodeId) ==
  IF join.declared /\ lastNodeId # None
  THEN fromJoin(cur.b, join, lastNodeId, cur.id)
  ELSE cur

\* One iteration of processFrom's loop for a table entry; st = [b, id] with
\* id the chain's last node.
fromEntry(st, item) ==
  fromChain(IF MapHas(st.b.cteRegistry, item.name.name)
            THEN fromCteReference(st.b, item.name.name, item.name.alias)
            ELSE fromTableSource(st.b, item.name.name, item.name.alias),
            item.join, st.id)

\* An entry that is no table starts the chain anew.
RECURSIVE processFromLoop_restart(_, _, _)
processFromLoop_restart(st, fromItems, k) ==
  IF k > Len(fromItems) THEN st
  ELSE IF fromItems[k].type # "table"
  THEN processFromLoop_restart([b |-> st.b, id |-> None], fromItems, k + 1)
  ELSE processFromLoop_restart(fromEntry(st, fromItems[k]), fromItems, k + 1)

\* processFrom's loop from entry k on.
RECURSIVE processFromLoop(_, _, _)
processFromLoop(st, fromItems, k) ==
  IF k > Len(fromItems) THEN st
  ELSE IF fromItems[k].type # "table" THEN processFromLoop(st, fromItems, k + 1)
  ELSE processFromLoop(fromEntry(st, fromItems[k]), fromItems, k + 1)

processFrom(b, fromItems) ==
  processFromLoop([b |-> b, id |-> None], fromItems, 1)

\* Step 1 of processSelectInner: the FROM clause.
innerFrom(b, select) ==
  IF Len(select.from) > 0 THEN processFrom(b, select.from)
  ELSE [b |-> b, id |-> None]

\* A filter or aggregation node with id n.id, fed by lastNodeId if there is one.
innerNode(n, data, lastNodeId) ==
  [b |-> IF lastNodeId # None
         THEN addEdge(addNode(n.b, [id |-> n.id, parentCteId |-> None, data |-> data]),
                      lastNodeId, n.id, [animated |-> TRUE])
         ELSE addNode(n.b, [id |-> n.id, parentCteId |-> None, data |-> data]),
   id |-> n.id]

\* Step 2 of processSelectInner: WHERE -> filter node.
innerWhere(st, select) ==
  IF select.where.type # None
  THEN innerNode(nextId(st.b, "filter"),
                 [kind |-> "filter", condition |-> exprToSql(select.where)],
                 st.id)
  ELSE st

\* Step 3 of processSelectInner: GROUP BY -> aggregation node.
innerGroupBy(st, select) ==
  IF Len(select.groupBy) > 0
  THEN innerNode(nextId(st.b, "agg"),
                 [kind |-> "aggregation",
                  groupByColumns |-> [k \in 1..Len(select.groupBy) |->
                                        exprToSql(select.groupBy[k])],
                  aggregates |-> Dedup(extractAggregatesAll(
                                   [k \in 1..Len(select.columns) |->
                                      select.columns[k].expr]))],
                 st.id)
  ELSE st

\* GROUP BY is processed before WHERE.
processSelectInner_aggFirst(b, select) ==
  innerWhere(innerGroupBy(innerFrom(collectReferencedColumns(b, select), select),
                          select),
             select)

\* Returns [b, id]: the builder and the id of the last node of the chain.
processSelectInner(b, select) ==
  innerGroupBy(innerWhere(innerFrom(collectReferencedColumns(b, select), select),
                          select),
               select)

\* Registers the id a further call of nextId would return.
registerCte_stale(b, name, cteId) ==
  [b EXCEPT !.cteRegistry = MapSet(@, name, "cte_" \o ToString(b.nodeCounter))]

\* Registers the id of the CTE's group container.
registerCte_group(b, name, cteId) ==
  [b EXCEPT !.cteRegistry =
     MapSet(@, name,
            LET g == CHOOSE k \in 1..Len(b.nodes) :
                       /\ b.nodes[k].data.kind = "cte-group"
                       /\ \A j \in (k + 1)..Len(b.nodes) : b.nodes[j].data.kind # "cte-group"
            IN b.nodes[g].id)]

\* The CTE is never registered.
registerCte_none(b, name, cteId) == b

\* cteRegistry.set(name, cteId) at the end of processCTE.
registerCte(b, name, cteId) ==
  [b EXCEPT !.cteRegistry = MapSet(@, name, cteId)]

\* Steps 1 and 2a of processCTE: the color, the group container node with id
\* g.id, and group tagging switched on.
cteOpenGroup(g, name, colorIndex) ==
  [addNode([g.b EXCEPT !.tableColorCounter = @ + 1,
                       !.tableColorMap = MapSet(@, name, colorIndex)],
           [id |-> g.id,
            parentCteId |-> None,
            data |-> [kind |-> "cte-group", cteName |-> name, colorIndex |-> colorIndex]])
     EXCEPT !.currentCteGroupId = g.id]

\* Step 3 of processCTE: the CTE result node with id c.id and its edge.
cteResultNode(c, lastNodeId, name, select, colorIndex) ==
  LET node == [id |-> c.id,
               parentCteId |-> None,
               data |-> [kind |-> "cte",
                         cteName |-> name,
                         outputColumns |-> resolveSelectColumns(select),
                         hasWhere |-> select.where.type # None,
                         hasGroupBy |-> Len(select.groupBy) > 0,
                         colorIndex |-> colorIndex]]
  IN IF lastNodeId # None
     THEN addEdge(addNode(c.b, node), lastNodeId, c.id, [animated |-> TRUE])
     ELSE addNode(c.b, node)

\* Group tagging is left switched on.
cteClose_noReset(c, lastNodeId, name, select, colorIndex) ==
  registerCte(cteResultNode(c, lastNodeId, name, select, colorIndex), name, c.id)

\* Steps 3 and 4 of processCTE, after the inner SELECT returned inner = [b, id].
cteClose(c, lastNodeId, name, select, colorIndex) ==
  registerCte([cteResultNode(c, lastNodeId, name, select, colorIndex)
                 EXCEPT !.currentCteGroupId = None],
              name, c.id)

cteFinish(inner, name, select, colorIndex) ==
  cteClose(nextId(inner.b, "cte"), inner.id, name, select, colorIndex)

processCTE(b, name, select) ==
  cteFinish(processSelectInner(cteOpenGroup(nextId(b, "cte_group"), name,
                                            b.tableColorCounter),
                               select),
            name, select, b.tableColorCounter)

\* The tail of processSelect: the output node with id n.id and its edge.
selectOutput(n, lastNodeId, outputCols, select) ==
  LET node == [id |-> n.id,
               parentCteId |-> None,
               data |-> [kind |-> "output",
                         columns |-> outputCols,
                         orderBy |-> IF select.orderBy # <<>>
                                     THEN JoinStrings([k \in 1..Len(select.orderBy) |->
                                            exprToSql(select.orderBy[k].by)], ", ")
                                     ELSE None,
                         limit |-> IF select.limit.type = "integer"
                                   THEN select.limit.value ELSE None,
                         tableColorMap |-> n.b.tableColorMap]]
  IN IF lastNodeId # None
     THEN addEdge(addNode(n.b, node), lastNodeId, n.id,
                  [animated |-> TRUE,
                   columns |-> [k \in 1..Len(outputCols) |-> outputCols[k].name]])
     ELSE addNode(n.b, node)

selectFinish(inner, select) ==
  selectOutput(nextId(inner.b, "output"), inner.id, resolveSelectColumns(select), select)

processSelect(b, select) ==
  selectFinish(processSelectInner(b, select), select)

build(b) == [nodes |-> b.nodes, edges |-> b.edges]

\* ---------------------------------------------------------------------
\* Lineage tracer
\* ---------------------------------------------------------------------
\* Array.prototype.find, and a for-of loop that returns at its first match:
\* the least index at which a sequence of test results is TRUE (0 if none).
FirstIndex(hits) ==
  IF \E k \in 1..Len(hits) : hits[k]
  THEN CHOOSE k \in 1..Len(hits) : hits[k] /\ \A j \in 1..(k - 1) : ~hits[j]
  ELSE 0

\* nodeMap.values(): new Map(graph.nodes.map(n => [n.id, n])) keeps one entry
\* per id, at the place of the id's first node and holding its last node.
nodeMapValues(graph) ==
  LET ns == graph.nodes
      isFirst(k) == \A j \in 1..(k - 1) : ns[j].id # ns[k].id
      lastOf(k) == CHOOSE j \in k..Len(ns) :
                     ns[j].id = ns[k].id /\ \A i \in (j + 1)..Len(ns) : ns[i].id # ns[k].id
      pick == SelectSeq([k \in 1..Len(ns) |-> k], isFirst)
  IN [k \in 1..Len(pick) |-> ns[lastOf(pick[k])]]

\* incomingEdges.get(id) ?? []: the sources of the edges into id, in edge order.
incomingEdgesOf(graph, id) ==
  LET into == SelectSeq(graph.edges, LAMBDA e : e.target = id)
  IN [k \in 1..Len(into) |-> into[k].source]

\* The tracer never looks inside a CTE.
cteColumnKnown_never(cteCol) == FALSE

\* cteCol?.sourceTable && cteCol.sourceColumn, for a CTE output column found.
cteColumnKnown_loose(cteCol) == cteCol.sourceColumn # None
cteColumnKnown(cteCol) == cteCol.sourceTable # None /\ cteCol.sourceColumn # None

RECURSIVE traceColumn(_, _, _, _, _)
RECURSIVE traceParents(_, _, _, _, _, _)

\* A table-source parent matches by the column's name only.
RECURSIVE traceParents_nameOnly(_, _, _, _, _, _)
traceParents_nameOnly(col, parents, k, nodeMap, graph, depth) ==
  IF k > Len(parents) THEN [threw |-> FALSE, sources |-> <<>>]
  ELSE LET at == FirstIndex([i \in 1..Len(nodeMap) |-> nodeMap[i].id = parents[k]]) IN
       IF at = 0 THEN traceParents_nameOnly(col, parents, k + 1, nodeMap, graph, depth)
       ELSE LET parentNode == nodeMap[at]
                m == IF parentNode.data.kind = "table-source"
                     THEN FirstIndex([i \in 1..Len(parentNode.data.columns) |->
                            parentNode.data.columns[i].name = col.name])
                     ELSE 0
            IN IF m # 0
               THEN [threw |-> FALSE,
                     sources |-> <<[table |-> parentNode.data.tableName,
                                    column |-> parentNode.data.columns[m].name]>>]
               ELSE LET r == traceColumn(col, parents[k], nodeMap, graph, depth + 1)
                    IN IF r.threw \/ Len(r.sources) > 0 THEN r
                       ELSE traceParents_nameOnly(col, parents, k + 1, nodeMap, graph, depth)

\* The loop "Walk backwards through incoming edges" of traceColumn from the
\* k-th parent on.
traceParents(col, parents, k, nodeMap, graph, depth) ==
  IF k > Len(parents) THEN [threw |-> FALSE, sources |-> <<>>]
  ELSE LET at == FirstIndex([i \in 1..Len(nodeMap) |-> nodeMap[i].id = parents[k]]) IN
       IF at = 0 THEN traceParents(col, parents, k + 1, nodeMap, graph, depth)
       ELSE LET parentNode == nodeMap[at]
                m == IF parentNode.data.kind = "table-source"
                     THEN FirstIndex([i \in 1..Len(parentNode.data.columns) |->
                            \/ parentNode.data.columns[i].name = col.name
                            \/ parentNode.data.columns[i].name = col.sourceColumn])
                     ELSE 0
            IN IF m # 0
               THEN [threw |-> FALSE,
                     sources |-> <<[table |-> parentNode.data.tableName,
                                    column |-> parentNode.data.columns[m].name]>>]
               ELSE LET r == traceColumn(col, parents[k], nodeMap, graph, depth + 1)
                    IN IF r.threw \/ Len(r.sources) > 0 THEN r
                       ELSE traceParents(col, parents, k + 1, nodeMap, graph, depth)

\* traceColumn at call depth `depth`; threw is the RangeError of a call
\* stack deeper than MaxDepth.
traceColumn(col, currentNodeId, nodeMap, graph, depth) ==
  IF depth > MaxDepth THEN [threw |-> TRUE, sources |-> <<>>]
  ELSE
  LET known == col.sourceTable # None /\ col.sourceColumn # None
      t == IF known
           THEN FirstIndex([i \in 1..Len(nodeMap) |->
                  /\ nodeMap[i].data.kind = "table-source"
                  /\ (nodeMap[i].data.tableName = col.sourceTable
                      \/ nodeMap[i].data.alias = col.sourceTable)])
           ELSE 0
      c == IF known /\ t = 0
           THEN FirstIndex([i \in 1..Len(nodeMap) |->
                  /\ nodeMap[i].data.kind = "cte"
                  /\ nodeMap[i].data.cteName = col.sourceTable])
           ELSE 0
  IN IF t # 0
     THEN [threw |-> FALSE,
           sources |-> <<[table |-> nodeMap[t].data.tableName,
                          column |-> col.sourceColumn]>>]
     ELSE IF c # 0
     THEN LET node == nodeMap[c]
              f == FirstIndex([i \in 1..Len(node.data.outputColumns) |->
                     node.data.outputColumns[i].name = col.sourceColumn])
          IN IF f # 0 /\ cteColumnKnown(node.data.outputColumns[f])
             THEN traceColumn(node.data.outputColumns[f], node.id, nodeMap, graph, depth + 1)
             ELSE [threw |-> FALSE,
                   sources |-> <<[table |-> col.sourceTable,
                                  column |-> col.sourceColumn]>>]
     ELSE traceParents(col, incomingEdgesOf(graph, currentNodeId), 1,
                       nodeMap, graph, depth)

\* Columns without a source get no entry.
computeColumnLineage_sourcedOnly(graph) ==
  LET nodeMap == nodeMapValues(graph)
      o == FirstIndex([i \in 1..Len(graph.nodes) |-> graph.nodes[i].data.kind = "output"])
  IN IF o = 0 THEN [threw |-> FALSE, entries |-> <<>>]
     ELSE LET outputNode == graph.nodes[o]
              cols == SelectSeq(outputNode.data.columns,
                        LAMBDA c : traceColumn(c, outputNode.id, nodeMap, graph, 1).sources # <<>>)
          IN [threw |-> FALSE,
              entries |-> [k \in 1..Len(cols) |->
                             [outputColumn |-> cols[k].name,
                              sources |-> traceColumn(cols[k], outputNode.id, nodeMap,
                                                      graph, 1).sources]]]

computeColumnLineage(graph) ==
  LET nodeMap == nodeMapValues(graph)
      o == FirstIndex([i \in 1..Len(graph.nodes) |-> graph.nodes[i].data.kind = "output"])
  IN IF o = 0 THEN [threw |-> FALSE, entries |-> <<>>]
     ELSE LET outputNode == graph.nodes[o]
              cols == outputNode.data.columns
              traced == [k \in 1..Len(cols) |->
                           traceColumn(cols[k], outputNode.id, nodeMap, graph, 1)]
          IN IF \E k \in 1..Len(cols) : traced[k].threw
             THEN [threw |-> TRUE, entries |-> <<>>]
             ELSE [threw |-> FALSE,
                   entries |-> [k \in 1..Len(cols) |->
                                  [outputColumn |-> cols[k].name,
                                   sources |-> traced[k].sources]]]

\* ---------------------------------------------------------------------
\* The inputs: statements as the parser returns them, and schemas
\* ---------------------------------------------------------------------
Col(expr, alias) == [expr |-> expr, alias |-> alias]
NoJoin == [declared |-> FALSE, type |-> None, on |-> NoExpr]
Join(type, on) == [declared |-> TRUE, type |-> type, on |-> on]
Table(name, alias, join) ==
  [type |-> "table", name |-> [name |-> name, alias |-> alias], join |-> join]
\* A FROM entry that is not a table reference (a subquery in FROM).
SubqueryFrom == [type |-> "statement", alias |-> "q", join |-> NoJoin]
Select(cols, from, where, groupBy) ==
  [type |-> "select", columns |-> cols, from |-> from, where |-> where,
   groupBy |-> groupBy, orderBy |-> <<>>, limit |-> NoExpr]
Binding(name, statement) == [alias |-> [name |-> name], statement |-> statement]
With(bind, in) == [type |-> "with", bind |-> bind, in |-> in]
Other(type) == [type |-> type]

\* Names of the bindings of a WITH clause, by position.
CteNames == <<"w", "v", "r", "p">>

OnCond == Binary("=", Ref("a", "x"), Ref(None, "y"))
WhereCond == Binary("=", Ref(None, "y"), StrLit("k"))
SumY == Call("SUM", <<Ref(None, "y")>>)

FirstItems ==
  {Table("t", None, NoJoin), Table("t", "a", NoJoin), Table("u", "a", NoJoin),
   Table("w", None, NoJoin), Table("w", "a", NoJoin), SubqueryFrom}
LaterItems ==
  {Table("t", None, Join("INNER JOIN", OnCond)),
   Table("u", "a", Join("LEFT JOIN", OnCond)),
   Table("w", None, Join("INNER JOIN", OnCond)),
   Table("w", "a", Join("CROSS JOIN", NoExpr)),
   Table("v", None, Join(None, Ref("v", "x"))),
   Table("t", None, NoJoin),
   SubqueryFrom}

RECURSIVE FromListsOfLen(_)
FromListsOfLen(n) ==
  IF n = 0 THEN {<<>>}
  ELSE IF n = 1 THEN {<<f>> : f \in FirstItems}
  ELSE {Append(l, g) : l \in FromListsOfLen(n - 1), g \in LaterItems}
FromLists == UNION {FromListsOfLen(n) : n \in 0..MaxFrom}

\* Bodies of CTE bindings.
BodyPlain == Select(<<Col(Ref(None, "x"), None)>>, <<Table("t", None, NoJoin)>>, NoExpr, <<>>)
BodyAlias == Select(<<Col(Ref("a", "y"), None)>>, <<Table("u", "a", NoJoin)>>, WhereCond, <<>>)
BodyAgg ==
  Select(<<Col(Ref("t", "x"), None), Col(SumY, "s")>>, <<Table("t", None, NoJoin)>>,
         WhereCond, <<Ref(None, "x")>>)
BodyFromW == Select(<<Col(Ref("w", "x"), None)>>, <<Table("w", None, NoJoin)>>, NoExpr, <<>>)
BodyFromV ==
  Select(<<Col(Ref("v", "x"), "y")>>,
         <<Table("v", None, NoJoin), Table("t", None, Join("INNER JOIN", OnCond))>>,
         NoExpr, <<>>)
BodyEmpty == Select(<<Col(IntLit(1), "x")>>, <<>>, NoExpr, <<>>)
BodyNoFrom == Select(<<Col(IntLit(1), None)>>, <<>>, WhereCond, <<Ref(None, "x")>>)
BodyStar == Select(<<Col(Ref(None, "*"), None)>>, <<Table("t", None, NoJoin)>>, NoExpr, <<>>)
\* SELECT w.x FROM (SELECT ..) AS w, as the body of a CTE that is named w too.
BodySelf ==
  Select(<<Col(Ref("w", "x"), None)>>, <<[SubqueryFrom EXCEPT !.alias = "w"]>>, NoExpr, <<>>)
CteBodies ==
  {BodyPlain, BodyAlias, BodyAgg, BodyFromW, BodyFromV, BodyEmpty, BodyNoFrom,
   Other("insert")}

RECURSIVE BindListsOfLen(_)
BindListsOfLen(n) ==
  IF n = 0 THEN {<<>>}
  ELSE {Append(l, Binding(CteNames[n], body)) : l \in BindListsOfLen(n - 1), body \in CteBodies}
BindLists == UNION {BindListsOfLen(n) : n \in 0..MaxCtes}

BindSmall ==
  {<<>>,
   <<Binding("w", BodyAlias)>>,
   <<Binding("w", BodyAgg)>>,
   <<Binding("w", BodyStar)>>,
   <<Binding("w", BodyPlain), Binding("v", BodyFromW)>>}

\* Main queries that vary the shape of the pipeline.
MainSmall ==
  {Select(<<Col(Ref(None, "*"), None)>>, <<Table("t", None, NoJoin)>>, NoExpr, <<>>),
   Select(<<Col(Ref("a", "x"), None)>>, <<Table("t", "a", NoJoin)>>, NoExpr, <<>>),
   Select(<<Col(Ref("w", "x"), None)>>, <<Table("w", None, NoJoin)>>, NoExpr, <<>>),
   [Select(<<Col(Ref("a", "x"), None), Col(SumY, "s")>>,
           <<Table("w", "a", NoJoin), Table("v", None, Join("INNER JOIN", OnCond))>>,
           WhereCond, <<Ref("a", "x")>>)
      EXCEPT !.orderBy = <<[by |-> Ref(None, "s")]>>, !.limit = IntLit(5)],
   Select(<<Col(Ref("t", "x"), None)>>,
          <<Table("t", None, NoJoin), Table("t", "a", Join("INNER JOIN", OnCond))>>,
          NoExpr, <<>>),
   Select(<<Col(Ref("v", "x"), None), Col(Ref("w", "s"), None)>>,
          <<Table("v", None, NoJoin), Table("w", None, NoJoin)>>, NoExpr, <<>>),
   Select(<<Col(IntLit(1), None)>>, <<>>, NoExpr, <<>>),
   Other("insert")}

\* Main queries that vary the FROM list, WHERE and GROUP BY.
MainByFrom ==
  {Select(<<Col(Ref("a", "x"), None), Col(SumY, "s")>>, from, where, groupBy) :
     from \in FromLists, where \in {NoExpr, WhereCond},
     groupBy \in {<<>>, <<Ref(None, "x")>>}}

\* Main queries that vary the SELECT list over a few FROM lists.
ColLists ==
  {<<Col(Ref(None, "*"), None)>>,
   <<Col(Ref("a", "x"), None)>>,
   <<Col(Ref("t", "x"), None)>>,
   <<Col(Ref(None, "x"), None)>>,
   <<Col(Ref("w", "x"), None)>>,
   <<Col(Ref("a", "x"), "s")>>,
   <<Col(Ref("a", "*"), None)>>,
   <<Col(Call("SUM", <<Ref("a", "y")>>), "s")>>,
   <<Col(Call("UPPER", <<Ref(None, "x")>>), None)>>,
   <<Col(Call("COUNT", <<Ref(None, "*")>>), None)>>,
   <<Col(Ref("a", "y"), None), Col(Ref("w", "s"), None)>>,
   <<Col(IntLit(1), None)>>}
FromSmall ==
  {<<>>,
   <<Table("t", None, NoJoin)>>,
   <<Table("t", "a", NoJoin)>>,
   <<Table("w", None, NoJoin)>>,
   <<Table("w", "a", NoJoin)>>,
   <<Table("t", "a", NoJoin), Table("w", None, Join("INNER JOIN", OnCond))>>,
   <<Table("u", "a", NoJoin), Table("t", None, Join("INNER JOIN", OnCond))>>}
MainByCols ==
  {Select(cols, from, NoExpr, <<>>) : cols \in ColLists, from \in FromSmall}

\* SELECT * FROM customers
ScenarioA ==
  Select(<<Col(Ref(None, "*"), None)>>, <<Table("customers", None, NoJoin)>>, NoExpr, <<>>)
\* SELECT c.name, o.total FROM customers c INNER JOIN orders o
\*   ON c.id = o.customer_id WHERE o.status = 'completed'
ScenarioB ==
  Select(<<Col(Ref("c", "name"), None), Col(Ref("o", "total"), None)>>,
         <<Table("customers", "c", NoJoin),
           Table("orders", "o",
                 Join("INNER JOIN", Binary("=", Ref("c", "id"), Ref("o", "customer_id"))))>>,
         Binary("=", Ref("o", "status"), StrLit("completed")), <<>>)
\* WITH t AS (SELECT customer_id, SUM(total) AS s FROM orders GROUP BY customer_id)
\* SELECT c.name, t.s FROM t JOIN customers c ON t.customer_id = c.id
ScenarioC ==
  With(<<Binding("t",
           Select(<<Col(Ref(None, "customer_id"), None),
                    Col(Call("SUM", <<Ref(None, "total")>>), "s")>>,
                  <<Table("orders", None, NoJoin)>>, NoExpr,
                  <<Ref(None, "customer_id")>>))>>,
       Select(<<Col(Ref("c", "name"), None), Col(Ref("t", "s"), None)>>,
              <<Table("t", None, NoJoin),
                Table("customers", "c",
                      Join("INNER JOIN", Binary("=", Ref("t", "customer_id"), Ref("c", "id"))))>>,
              NoExpr, <<>>))

SchemaCol(name, dataType) == [name |-> name, dataType |-> dataType]
FullSchema ==
  <<[name |-> "t", columns |-> <<SchemaCol("x", "integer"), SchemaCol("y", "text")>>],
    [name |-> "u", columns |-> <<SchemaCol("y", "text"), SchemaCol("z", "integer")>>],
    [name |-> "customers",
     columns |-> <<SchemaCol("id", "integer"), SchemaCol("name", "text")>>],
    [name |-> "orders",
     columns |-> <<SchemaCol("id", "integer"), SchemaCol("customer_id", "integer"),
                   SchemaCol("status", "text"), SchemaCol("total", "numeric")>>]>>
Schemas == {<<>>, FullSchema}

WrapWith(bind, main) == IF bind = <<>> /\ main.type = "select" THEN main ELSE With(bind, main)

Inputs ==
  {[ast |-> WrapWith(bind, main), schema |-> FullSchema] :
     bind \in BindLists, main \in MainSmall}
  \cup {[ast |-> WrapWith(bind, main), schema |-> FullSchema] :
          bind \in BindSmall, main \in MainByFrom}
  \cup {[ast |-> WrapWith(bind, main), schema |-> sch] :
          bind \in BindSmall, main \in MainByCols, sch \in Schemas}
  \cup {[ast |-> With(<<Binding("w", BodySelf)>>, main), schema |-> FullSchema] :
          main \in MainSmall}
  \cup {[ast |-> a, schema |-> sch] :
          a \in {ScenarioA, ScenarioB, ScenarioC, Other("insert"), Other("update"),
                 Other("delete"), Other("create table")},
          sch \in Schemas}

\* ---------------------------------------------------------------------
\* sqlToFlowGraph, step by step
\* ---------------------------------------------------------------------
NoExc == [isError |-> FALSE, message |-> None, value |-> None]
Pending == [pending |-> TRUE]
UnsupportedError == [error |-> "Only SELECT queries can be visualized."]

\* The exception leaves the function.
catchHandler_rethrow(e) == [thrown |-> e]

\* The handler of the catch clause.
catchHandler(e) ==
  [error |-> "Parse error: " \o (IF e.isError THEN e.message ELSE e.value)]

\* The canvas before its first effect runs: useNodesState([]), useEdgesState([]),
\* no layout request made, and layout.ts just loaded (elkInstance = null, here 0).
NoQuery == [blank |-> TRUE, ast |-> [type |-> None]]
EmptyDisplay == [nodes |-> <<>>, edges |-> <<>>]
CanvasUnmounted ==
  /\ sql = NoQuery
  /\ display = EmptyDisplay
  /\ shownError = None
  /\ layoutCalls = <<>>
  /\ elkInstance = 0
  /\ elkConstructed = 0
  /\ builds = <<>>
  /\ updates = 0

Init ==
  /\ \E inp \in Inputs : ast = inp.ast /\ schema = inp.schema
  /\ pc = "parse"
  /\ bindIdx = 0
  /\ builder = NewBuilder(schema)
  /\ exc = NoExc
  /\ result = Pending
  /\ lineage = Pending
  /\ CanvasUnmounted

\* parseFirst(sql): returns the statement or throws.
ParseFirst ==
  /\ pc = "parse"
  /\ \/ pc' = "dispatch" /\ exc' = exc
     \/ pc' = "catch"
        /\ exc' = [isError |-> TRUE, message |-> "Syntax error at line 1", value |-> None]
  /\ UNCHANGED <<ast, schema, bindIdx, builder, result, lineage>>
  /\ UNCHANGED canvasVars

\* if (ast.type === "with"): enter the loop over withStmt.bind.
EnterWith ==
  /\ pc = "dispatch" /\ ast.type = "with"
  /\ pc' = "bind" /\ bindIdx' = 1
  /\ UNCHANGED <<ast, schema, builder, exc, result, lineage>>
  /\ UNCHANGED canvasVars

\* One iteration of the loop over the bindings.
ProcessBinding ==
  /\ pc = "bind" /\ bindIdx <= Len(ast.bind)
  /\ LET cte == ast.bind[bindIdx] IN
       builder' = IF cte.statement.type = "select"
                  THEN processCTE(builder, cte.alias.name, cte.statement)
                  ELSE builder
  /\ bindIdx' = bindIdx + 1
  /\ UNCHANGED <<ast, schema, pc, exc, result, lineage>>
  /\ UNCHANGED canvasVars

\* After the loop: if (withStmt.in.type === "select") processSelect.
ProcessIn ==
  /\ pc = "bind" /\ bindIdx > Len(ast.bind)
  /\ builder' = IF ast.in.type = "select" THEN processSelect(builder, ast.in) ELSE builder
  /\ pc' = "build"
  /\ UNCHANGED <<ast, schema, bindIdx, exc, result, lineage>>
  /\ UNCHANGED canvasVars

\* else if (ast.type === "select") processSelect.
ProcessTopSelect ==
  /\ pc = "dispatch" /\ ast.type = "select"
  /\ builder' = processSelect(builder, ast)
  /\ pc' = "build"
  /\ UNCHANGED <<ast, schema, bindIdx, exc, result, lineage>>
  /\ UNCHANGED canvasVars

\* Falls through to builder.build().
RejectStatement_build ==
  /\ pc = "dispatch" /\ ast.type \notin {"with", "select"}
  /\ pc' = "build"
  /\ UNCHANGED <<ast, schema, bindIdx, builder, exc, result, lineage>>
  /\ UNCHANGED canvasVars

\* else return the error object.
RejectStatement ==
  /\ pc = "dispatch" /\ ast.type \notin {"with", "select"}
  /\ result' = UnsupportedError
  /\ pc' = "done"
  /\ UNCHANGED <<ast, schema, bindIdx, builder, exc, lineage>>
  /\ UNCHANGED canvasVars

\* A call into the parser library's visitor throws inside the try block.
BuildThrows ==
  /\ pc \in {"dispatch", "bind"}
  /\ ast.type \in {"with", "select"}
  /\ exc' = [isError |-> FALSE, message |-> None, value |-> "visitor failed"]
  /\ pc' = "catch"
  /\ UNCHANGED <<ast, schema, bindIdx, builder, result, lineage>>
  /\ UNCHANGED canvasVars

\* return builder.build()
Build ==
  /\ pc = "build"
  /\ result' = build(builder)
  /\ pc' = "done"
  /\ UNCHANGED <<ast, schema, bindIdx, builder, exc, lineage>>
  /\ UNCHANGED canvasVars

\* catch (e): return the error object.
Catch ==
  /\ pc = "catch"
  /\ result' = catchHandler(exc)
  /\ pc' = "done"
  /\ UNCHANGED <<ast, schema, bindIdx, builder, exc, lineage>>
  /\ UNCHANGED canvasVars

\* The caller computes the lineage of a returned graph.
ComputeLineage ==
  /\ pc = "done" /\ "nodes" \in DOMAIN result
  /\ lineage' = computeColumnLineage(result)
  /\ pc' = "traced"
  /\ UNCHANGED <<ast, schema, bindIdx, builder, exc, result>>
  /\ UNCHANGED canvasVars

Next ==
  \/ ParseFirst
  \/ EnterWith
  \/ ProcessBinding
  \/ ProcessIn
  \/ ProcessTopSelect
  \/ RejectStatement
  \/ BuildThrows
  \/ Build
  \/ Catch
  \/ ComputeLineage

Spec == Init /\ [][Next]_vars

\* ---------------------------------------------------------------------
\* Layout engine (my-app/src/lib/flow/layout.ts)
\* ---------------------------------------------------------------------
COMPACT_WIDTH == 200
WIDE_WIDTH == 260
ROW_HEIGHT == 28
MIN_HEIGHT == 70
HEIGHT_BUFFER == 16
LAYER_SPACING == 120
GROUP_PADDING == 28

\* Math.max
Max(a, b) == IF a >= b THEN a ELSE b

\* An optional number of an ElkNode: <<>> is undefined, <<v>> is the number v.
Undefined == <<>>
Some(v) == <<v>>
\* a ?? d
orElse(a, d) == IF a = Undefined THEN d ELSE a[1]

\* The return statement at the end of estimateNodeSize.
rowsSize(rows, width) ==
  [width |-> width, height |-> Max(MIN_HEIGHT, rows * ROW_HEIGHT + HEIGHT_BUFFER)]

estimateNodeSize(node) ==
  CASE node.data.kind = "cte-group" -> [width |-> 0, height |-> 0]
    [] node.data.kind = "table-source" ->
         rowsSize(Max(Len(node.data.columns), 1) + 1, WIDE_WIDTH)
    [] node.data.kind = "cte" ->
         rowsSize(Max(Len(node.data.outputColumns), 1) + 1
                    + (IF node.data.hasWhere \/ node.data.hasGroupBy THEN 1 ELSE 0),
                  WIDE_WIDTH)
    [] node.data.kind = "output" ->
         rowsSize(Max(Len(node.data.columns), 1) + 1, WIDE_WIDTH)
    [] node.data.kind = "aggregation" ->
         rowsSize(Len(node.data.groupByColumns) + Len(node.data.aggregates) + 1,
                  COMPACT_WIDTH)
    [] node.data.kind = "join" ->
         [width |-> WIDE_WIDTH,
          height |-> 100
                     + (IF "outputColumns" \in DOMAIN node.data
                           /\ Len(node.data.outputColumns) > 0 THEN 28 ELSE 0)
                     + HEIGHT_BUFFER]
    [] node.data.kind = "filter" -> [width |-> 160, height |-> 110]
    [] OTHER -> rowsSize(1, COMPACT_WIDTH)

\* An ElkNode: { id, width?, height?, x?, y?, children, edges }.
ElkNode(id, width, height, children, edges) ==
  [id |-> id, width |-> width, height |-> height, x |-> Undefined, y |-> Undefined,
   children |-> children, edges |-> edges]

\* const elkNode = { id: node.id, ...estimateNodeSize(node) }
elkLeaf(node) ==
  ElkNode(node.id, Some(estimateNodeSize(node).width),
          Some(estimateNodeSize(node).height), <<>>, <<>>)

\* parentMap.get(id): the parentCteId of the last tagged node with that id.
parentMapGet(graph, id) ==
  LET tagged == SelectSeq(graph.nodes, LAMBDA n : n.id = id /\ n.parentCteId # None)
  IN IF Len(tagged) = 0 THEN None ELSE tagged[Len(tagged)].parentCteId

groupIds(graph) ==
  {graph.nodes[k].id :
     k \in {j \in 1..Len(graph.nodes) : graph.nodes[j].data.kind = "cte-group"}}

\* parent && groupChildren.has(parent), when the loop is at the k-th node: the
\* group's container node came earlier in graph.nodes.
nestsUnder(graph, k, gid) ==
  /\ graph.nodes[k].data.kind # "cte-group"
  /\ parentMapGet(graph, graph.nodes[k].id) = gid
  /\ \E j \in 1..(k - 1) :
       graph.nodes[j].data.kind = "cte-group" /\ graph.nodes[j].id = gid

\* The indices of a sequence of nodes that satisfy a test, in order.
IndicesWhere(hits) == SelectSeq([k \in 1..Len(hits) |-> k], LAMBDA k : hits[k])

\* groupChildren.get(gid) after the first loop over graph.nodes.
groupChildren(graph, gid) ==
  LET at == IndicesWhere([k \in 1..Len(graph.nodes) |-> nestsUnder(graph, k, gid)])
  IN [i \in 1..Len(at) |-> elkLeaf(graph.nodes[at[i]])]

elkEdge(edge) == [id |-> edge.id, sources |-> <<edge.source>>, targets |-> <<edge.target>>]

\* The target's group is not looked at.
edgeInside_sourceOnly(graph, edge, gid) ==
  /\ parentMapGet(graph, edge.source) = gid
  /\ gid \in groupIds(graph)

\* sourceParent && sourceParent === targetParent && groupIds.has(sourceParent)
edgeInside(graph, edge, gid) ==
  /\ parentMapGet(graph, edge.source) = gid
  /\ parentMapGet(graph, edge.target) = gid
  /\ gid \in groupIds(graph)

groupEdges(graph, gid) ==
  LET at == IndicesWhere([k \in 1..Len(graph.edges) |->
                            edgeInside(graph, graph.edges[k], gid)])
  IN [i \in 1..Len(at) |-> elkEdge(graph.edges[at[i]])]

rootEdges(graph) ==
  LET at == IndicesWhere([k \in 1..Len(graph.edges) |->
                            ~\E gid \in groupIds(graph) :
                               edgeInside(graph, graph.edges[k], gid)])
  IN [i \in 1..Len(at) |-> elkEdge(graph.edges[at[i]])]

\* The compound node of a cte-group node, with its children and inner edges.
compoundNode(graph, node) ==
  ElkNode(node.id, Undefined, Undefined,
          groupChildren(graph, node.id), groupEdges(graph, node.id))

\* rootChildren: the nodes outside every group, then the compound nodes.
rootChildren(graph) ==
  LET loose == IndicesWhere([k \in 1..Len(graph.nodes) |->
                 /\ graph.nodes[k].data.kind # "cte-group"
                 /\ ~\E gid \in groupIds(graph) : nestsUnder(graph, k, gid)])
      groups == IndicesWhere([k \in 1..Len(graph.nodes) |->
                  graph.nodes[k].data.kind = "cte-group"])
  IN [i \in 1..Len(loose) |-> elkLeaf(graph.nodes[loose[i]])]
     \o [i \in 1..Len(groups) |-> compoundNode(graph, graph.nodes[groups[i]])]

\* const elkGraph = { id: "root", children: rootChildren, edges: rootEdges }
elkGraphOf(graph) ==
  ElkNode("root", Undefined, Undefined, rootChildren(graph), rootEdges(graph))

\* elk.layout(elkGraph), the external solver.  It returns the tree it was
\* given; "placed" is a run that gave every node a place and every compound
\* node a size, "bare" a run that returned the nodes without any geometry.
RECURSIVE solvedChildren(_, _)
solvedNode(n, k, mode) ==
  IF mode = "bare"
  THEN [n EXCEPT !.x = Undefined, !.y = Undefined, !.width = Undefined,
                 !.height = Undefined, !.children = solvedChildren(n.children, mode)]
  ELSE [n EXCEPT !.x = Some((k - 1) * (WIDE_WIDTH + LAYER_SPACING)),
                 !.y = Some(0),
                 !.width = IF @ = Undefined
                           THEN Some(Len(n.children) * (WIDE_WIDTH + LAYER_SPACING)
                                     + 2 * GROUP_PADDING)
                           ELSE @,
                 !.height = IF @ = Undefined
                            THEN Some(MIN_HEIGHT + 2 * GROUP_PADDING + 24)
                            ELSE @,
                 !.children = solvedChildren(n.children, mode)]
solvedChildren(children, mode) ==
  [k \in 1..Len(children) |-> solvedNode(children[k], k, mode)]

SolverError == "org.eclipse.elk.core.UnsupportedConfigurationException"
\* What awaiting elk.layout(elkGraph) can give: a layout result or a rejection.
SolverOutcomes(elkGraph) ==
  {[rejected |-> FALSE, mode |-> mode,
    children |-> solvedChildren(elkGraph.children, mode)] : mode \in {"placed", "bare"}}
  \cup {[rejected |-> TRUE, error |-> SolverError]}

\* positions.set(child.id, {...}) of extractPositions.
positionOf(child) ==
  [id |-> child.id,
   x |-> orElse(child.x, 0), y |-> orElse(child.y, 0),
   width |-> orElse(child.width, COMPACT_WIDTH),
   height |-> orElse(child.height, MIN_HEIGHT)]

\* Only the children of the root are visited.
extractPositions_flat(children) ==
  [k \in 1..Len(children) |-> positionOf(children[k])]

\* The entries set by extractPositions(children), in the order they are set.
RECURSIVE extractPositions(_)
extractPositions(children) ==
  IF Len(children) = 0 THEN <<>>
  ELSE <<positionOf(Head(children))>>
       \o (IF Len(Head(children).children) > 0
           THEN extractPositions(Head(children).children) ELSE <<>>)
       \o extractPositions(Tail(children))

\* positions.has(id) and positions.get(id): the last entry set for id.
positionsHas(positions, id) == \E k \in 1..Len(positions) : positions[k].id = id
positionsGet(positions, id) ==
  positions[CHOOSE k \in 1..Len(positions) :
              /\ positions[k].id = id
              /\ \A j \in (k + 1)..Len(positions) : positions[j].id # id]

\* The rejection is caught and an empty map is returned.
computeLayoutSettled_degraded(outcome) ==
  IF outcome.rejected THEN [status |-> "resolved", positions |-> <<>>]
  ELSE [status |-> "resolved", positions |-> extractPositions(outcome.children)]

\* How computeLayout settles once elk.layout has: it has no try/catch, so a
\* rejection is its own; otherwise it resolves with the positions.
computeLayoutSettled(outcome) ==
  IF outcome.rejected THEN [status |-> "rejected", error |-> outcome.error]
  ELSE [status |-> "resolved", positions |-> extractPositions(outcome.children)]

\* ---------------------------------------------------------------------
\* flowGraphToReactFlow (my-app/src/lib/flow/to-react-flow.ts), after
\* computeLayout resolved
\* ---------------------------------------------------------------------
DefaultPosition == [x |-> 0, y |-> 0, width |-> 220, height |-> 60]
rfNode(node, positions) ==
  LET pos == IF positionsHas(positions, node.id)
             THEN positionsGet(positions, node.id) ELSE DefaultPosition
  IN [id |-> node.id, type |-> node.data.kind,
      position |-> [x |-> pos.x, y |-> pos.y],
      style |-> [width |-> pos.width, height |-> pos.height]]
rfEdge(edge) ==
  [id |-> edge.id, source |-> edge.source, target |-> edge.target,
   animated |-> edge.animated]
flowGraphToReactFlow(graph, positions) ==
  [nodes |-> [k \in 1..Len(graph.nodes) |-> rfNode(graph.nodes[k], positions)],
   edges |-> [k \in 1..Len(graph.edges) |-> rfEdge(graph.edges[k])]]

\* ---------------------------------------------------------------------
\* The canvas: QueryFlowCanvas.updateGraph and its pending layout requests
\* ---------------------------------------------------------------------
\* Largest number of updateGraph calls of one session.
MaxUpdates == 2

\* The queries the canvas is given: a blank text, the CTE query of Scenario C,
\* SELECT t.x FROM t, an INSERT, and a WITH that wraps no SELECT at all.
BlankQuery == [blank |-> TRUE, ast |-> [type |-> None]]
QueryPlain ==
  Select(<<Col(Ref("t", "x"), None)>>, <<Table("t", None, NoJoin)>>, NoExpr, <<>>)
QueryNoSelect == With(<<Binding("w", Other("insert"))>>, Other("insert"))
SessionQueries ==
  {BlankQuery}
  \cup {[blank |-> FALSE, ast |-> a] :
          a \in {ScenarioC, QueryPlain, Other("insert"), QueryNoSelect}}

\* The builder takes over the counters and registries of the builder before it.
newFlowGraphBuilder_reused(sch) ==
  [NewBuilder(sch) EXCEPT !.nodeCounter = builder.nodeCounter,
                          !.cteRegistry = builder.cteRegistry,
                          !.tableColorMap = builder.tableColorMap,
                          !.tableColorCounter = builder.tableColorCounter]

\* const builder = new FlowGraphBuilder(schema), in sqlToFlowGraph.
newFlowGraphBuilder(sch) == NewBuilder(sch)

SessionInit ==
  /\ ast = NoQuery.ast
  /\ schema = FullSchema
  /\ pc = "idle"
  /\ bindIdx = 0
  /\ builder = NewBuilder(schema)
  /\ exc = NoExc
  /\ result = Pending
  /\ lineage = Pending
  /\ CanvasUnmounted

\* updateGraph(query) with a blank query: the canvas is cleared.
UpdateBlank ==
  /\ pc = "idle" /\ updates < MaxUpdates
  /\ sql' = BlankQuery
  /\ display' = EmptyDisplay
  /\ updates' = updates + 1
  /\ UNCHANGED <<ast, schema, pc, bindIdx, builder, exc, result, lineage>>
  /\ UNCHANGED <<shownError, layoutCalls, elkInstance, elkConstructed, builds>>

\* updateGraph(query) up to its call of sqlToFlowGraph(query, schema).
UpdateGraph ==
  /\ pc = "idle" /\ updates < MaxUpdates
  /\ \E q \in SessionQueries \ {BlankQuery} : sql' = q /\ ast' = q.ast
  /\ builder' = newFlowGraphBuilder(schema)
  /\ pc' = "parse" /\ bindIdx' = 0 /\ exc' = NoExc /\ result' = Pending
  /\ updates' = updates + 1
  /\ UNCHANGED <<schema, lineage>>
  /\ UNCHANGED <<display, shownError, layoutCalls, elkInstance, elkConstructed, builds>>

\* The layout request of a graph: computeLayout up to its first await.  The
\* ELK graph is built, and getElk returns the instance there is or starts
\* the dynamic import.
newLayoutCall(graph) ==
  [graph |-> graph,
   elkGraph |-> elkGraphOf(graph),
   at |-> IF elkInstance # 0 THEN "layout" ELSE "import",
   elk |-> elkInstance]

\* updateGraph after sqlToFlowGraph returned: report the error, clear the
\* canvas for a graph without nodes, or await flowGraphToReactFlow(result).
ContinueUpdate ==
  /\ pc = "done"
  /\ pc' = "idle"
  /\ builds' = Append(builds, [ast |-> ast, schema |-> schema, result |-> result])
  /\ shownError' = IF "error" \in DOMAIN result THEN result.error ELSE shownError
  /\ display' = IF "nodes" \in DOMAIN result /\ Len(result.nodes) = 0
                THEN EmptyDisplay ELSE display
  /\ layoutCalls' = IF "nodes" \in DOMAIN result /\ Len(result.nodes) > 0
                    THEN Append(layoutCalls, newLayoutCall(result))
                    ELSE layoutCalls
  /\ UNCHANGED <<ast, schema, bindIdx, builder, exc, result, lineage>>
  /\ UNCHANGED <<sql, elkInstance, elkConstructed, updates>>

\* getElk after its dynamic import resolved: elkInstance = new ELKConstructor().
ImportResolves ==
  /\ pc = "idle"
  /\ \E i \in 1..Len(layoutCalls) :
       /\ layoutCalls[i].at = "import"
       /\ layoutCalls' = [layoutCalls EXCEPT ![i].at = "layout",
                                             ![i].elk = elkConstructed + 1]
  /\ elkConstructed' = elkConstructed + 1
  /\ elkInstance' = elkConstructed + 1
  /\ UNCHANGED <<ast, schema, pc, bindIdx, builder, exc, result, lineage>>
  /\ UNCHANGED <<sql, display, shownError, builds, updates>>

\* The canvas after one of its layout requests settled: setNodes / setEdges,
\* or the catch clause's onError.
afterLayout(call, settled) ==
  /\ display' = IF settled.status = "resolved"
                THEN flowGraphToReactFlow(call.graph, settled.positions)
                ELSE display
  /\ shownError' = IF settled.status = "rejected" THEN settled.error ELSE shownError

\* elk.layout(elkGraph) settles for one pending request, and with it
\* computeLayout, flowGraphToReactFlow and the rest of updateGraph.
LayoutSettles ==
  /\ pc = "idle"
  /\ \E i \in 1..Len(layoutCalls) :
       /\ layoutCalls[i].at = "layout"
       /\ \E outcome \in SolverOutcomes(layoutCalls[i].elkGraph) :
            /\ layoutCalls' =
                 [layoutCalls EXCEPT
                    ![i] = [graph |-> @.graph, elkGraph |-> @.elkGraph,
                            at |-> "settled", elk |-> @.elk,
                            outcome |-> outcome,
                            settled |-> computeLayoutSettled(outcome)]]
            /\ afterLayout(layoutCalls[i], computeLayoutSettled(outcome))
  /\ UNCHANGED <<ast, schema, pc, bindIdx, builder, exc, result, lineage>>
  /\ UNCHANGED <<sql, elkInstance, elkConstructed, builds, updates>>

SessionNext ==
  \/ UpdateBlank
  \/ UpdateGraph
  \/ ParseFirst
  \/ EnterWith
  \/ ProcessBinding
  \/ ProcessIn
  \/ ProcessTopSelect
  \/ RejectStatement
  \/ BuildThrows
  \/ Build
  \/ Catch
  \/ ContinueUpdate
  \/ ImportResolves
  \/ LayoutSettles

SessionSpec == SessionInit /\ [][SessionNext]_vars

\* ---------------------------------------------------------------------
\* Consecutive calls of sqlToFlowGraph in one module instance
\* ---------------------------------------------------------------------
\* sqlToFlowGraph is synchronous: calls never interleave, and whatever one
\* call could leave behind for the next would have to live outside the
\* builder it constructs.
\* Largest number of calls of one run.
MaxBuilds == 3

\* The statements of the calls.
CallInputs ==
  {ScenarioA, ScenarioB, ScenarioC, QueryPlain, Other("insert"), QueryNoSelect}

IsolationInit ==
  /\ ast = NoQuery.ast
  /\ schema \in Schemas
  /\ pc = "idle"
  /\ bindIdx = 0
  /\ builder = NewBuilder(schema)
  /\ exc = NoExc
  /\ result = Pending
  /\ lineage = Pending
  /\ CanvasUnmounted

\* A caller invokes sqlToFlowGraph(sql, schema).
StartCall ==
  /\ pc = "idle" /\ Len(builds) < MaxBuilds
  /\ \E a \in CallInputs : ast' = a
  /\ builder' = newFlowGraphBuilder(schema)
  /\ pc' = "parse" /\ bindIdx' = 0 /\ exc' = NoExc /\ result' = Pending
  /\ UNCHANGED <<schema, lineage>>
  /\ UNCHANGED canvasVars

\* sqlToFlowGraph returned its graph or its error to the caller.
ReturnToCaller ==
  /\ pc = "done"
  /\ pc' = "idle"
  /\ builds' = Append(builds, [ast |-> ast, schema |-> schema, result |-> result])
  /\ UNCHANGED <<ast, schema, bindIdx, builder, exc, result, lineage>>
  /\ UNCHANGED <<sql, display, shownError, layoutCalls, elkInstance,
                 elkConstructed, updates>>

IsolationNext ==
  \/ StartCall
  \/ ParseFirst
  \/ EnterWith
  \/ ProcessBinding
  \/ ProcessIn
  \/ ProcessTopSelect
  \/ RejectStatement
  \/ BuildThrows
  \/ Build
  \/ Catch
  \/ ReturnToCaller

IsolationSpec == IsolationInit /\ [][IsolationNext]_vars

\* ---------------------------------------------------------------------
\* One graph built and laid out
\* ---------------------------------------------------------------------
\* The statements whose graphs are laid out: no CTE, one CTE, and two CTEs
\* of which the second reads the first, under main queries that read tables
\* and CTEs.
LayoutInputs ==
  {WrapWith(bind, main) : bind \in BindSmall, main \in MainSmall}
  \cup {ScenarioA, ScenarioB, ScenarioC, Other("insert")}

LayoutInit ==
  /\ ast \in LayoutInputs
  /\ schema = FullSchema
  /\ pc = "parse"
  /\ bindIdx = 0
  /\ builder = NewBuilder(schema)
  /\ exc = NoExc
  /\ result = Pending
  /\ lineage = Pending
  /\ CanvasUnmounted

\* flowGraphToReactFlow(graph) calls computeLayout(graph), which runs up to
\* its first await.
RequestLayout ==
  /\ pc = "done" /\ "nodes" \in DOMAIN result
  /\ layoutCalls' = Append(layoutCalls, newLayoutCall(result))
  /\ pc' = "idle"
  /\ UNCHANGED <<ast, schema, bindIdx, builder, exc, result, lineage>>
  /\ UNCHANGED <<sql, display, shownError, elkInstance, elkConstructed, builds, updates>>

LayoutNext ==
  \/ ParseFirst
  \/ EnterWith
  \/ ProcessBinding
  \/ ProcessIn
  \/ ProcessTopSelect
  \/ RejectStatement
  \/ BuildThrows
  \/ Build
  \/ Catch
  \/ RequestLayout
  \/ ImportResolves
  \/ LayoutSettles

LayoutSpec == LayoutInit /\ [][LayoutNext]_vars

\* ---------------------------------------------------------------------
\* computeColumnLineage on FlowGraph values of any shape
\* ---------------------------------------------------------------------
\* FlowGraph is a plain { nodes, edges } type (types.ts): nothing in it
\* forbids an edge set with a cycle.  The graphs here have a filter node, a
\* join node and an output node with one column, and any set of edges
\* between the three.
GraphNodeIds == <<"filter_1", "join_2", "output_3">>
GraphColumns ==
  {[name |-> "x", sourceTable |-> None, sourceColumn |-> None],
   [name |-> "x", sourceTable |-> "q", sourceColumn |-> "x"]}
GraphNodes(col) ==
  <<[id |-> "filter_1", parentCteId |-> None,
     data |-> [kind |-> "filter", condition |-> "(y = 'k')"]],
    [id |-> "join_2", parentCteId |-> None,
     data |-> [kind |-> "join", joinType |-> "INNER", condition |-> ""]],
    [id |-> "output_3", parentCteId |-> None,
     data |-> [kind |-> "output", columns |-> <<col>>, orderBy |-> None,
               limit |-> None, tableColorMap |-> EmptyMap]]>>
\* All pairs (source, target), in a fixed order.
GraphPairs ==
  [k \in 1..9 |-> <<GraphNodeIds[((k - 1) \div 3) + 1], GraphNodeIds[((k - 1) % 3) + 1]>>]
GraphEdges(chosen) ==
  LET at == SelectSeq([k \in 1..9 |-> k], LAMBDA k : k \in chosen)
  IN [i \in 1..Len(at) |->
        [id |-> "e_" \o GraphPairs[at[i]][1] \o "_" \o GraphPairs[at[i]][2],
         source |-> GraphPairs[at[i]][1], target |-> GraphPairs[at[i]][2],
         animated |-> TRUE]]
FlowGraphs ==
  {[nodes |-> GraphNodes(col), edges |-> GraphEdges(chosen)] :
     col \in GraphColumns, chosen \in SUBSET (1..9)}

LineageInit ==
  /\ ast = NoQuery.ast
  /\ schema = <<>>
  /\ pc = "done"
  /\ bindIdx = 0
  /\ builder = NewBuilder(schema)
  /\ exc = NoExc
  /\ result \in FlowGraphs
  /\ lineage = Pending
  /\ CanvasUnmounted

LineageNext == ComputeLineage

LineageSpec == LineageInit /\ [][LineageNext]_vars

\* ---------------------------------------------------------------------
\* Properties
\* ---------------------------------------------------------------------
Returned == pc \in {"done", "traced"}
IsGraph(r) == DOMAIN r = {"nodes", "edges"}
IsError(r) == DOMAIN r = {"error"}
NodeIds(g) == {g.nodes[k].id : k \in 1..Len(g.nodes)}
NodesOf(g) == {g.nodes[k] : k \in 1..Len(g.nodes)}
KindIds(g, kind) ==
  {g.nodes[k].id : k \in {j \in 1..Len(g.nodes) : g.nodes[j].data.kind = kind}}
EdgeIdx(g) == 1..Len(g.edges)
NodeIdx(g) == 1..Len(g.nodes)
\* The main query of the input statement.
MainSelect == IF ast.type = "with" THEN ast.in ELSE ast

\* C1: in every returned FlowGraph, the source and the target of every edge
\* are ids of nodes of that graph (no dangling edges).
C1_NoDanglingEdges ==
  (Returned /\ IsGraph(result)) =>
    \A k \in EdgeIdx(result) :
      /\ result.edges[k].source \in NodeIds(result)
      /\ result.edges[k].target \in NodeIds(result)

\* A returned graph in which a join is fed by the result node of a CTE and
\* which has filter and aggregation nodes.
C1_Witness ==
  /\ Returned /\ IsGraph(result)
  /\ \E k \in EdgeIdx(result) :
       /\ result.edges[k].source \in KindIds(result, "cte")
       /\ result.edges[k].target \in KindIds(result, "join")
  /\ KindIds(result, "filter") # {}
  /\ KindIds(result, "aggregation") # {}

\* C2 as stated: in every returned graph, every cte result node and every
\* cte-group node has parentCteId unset.
C2_CteNodesUntagged ==
  (Returned /\ IsGraph(result)) =>
    \A k \in NodeIdx(result) :
      result.nodes[k].data.kind \in {"cte", "cte-group"}
        => result.nodes[k].parentCteId = None

\* C2 as amended: every cte-group node has parentCteId unset, and every cte
\* result node carries the id of the group container of its own CTE (the
\* last cte-group node created before it, which has the same cteName).
C2_CteNodeInsideItsGroup ==
  (Returned /\ IsGraph(result)) =>
    \A k \in NodeIdx(result) :
      /\ result.nodes[k].data.kind = "cte-group" => result.nodes[k].parentCteId = None
      /\ result.nodes[k].data.kind = "cte" =>
           \E j \in 1..(k - 1) :
             /\ result.nodes[j].data.kind = "cte-group"
             /\ \A i \in (j + 1)..k : result.nodes[i].data.kind # "cte-group"
             /\ result.nodes[j].data.cteName = result.nodes[k].data.cteName
             /\ result.nodes[k].parentCteId = result.nodes[j].id

\* A returned graph with the result nodes of two CTEs.
C2_Witness ==
  /\ Returned /\ IsGraph(result)
  /\ Cardinality(KindIds(result, "cte")) >= 2
  /\ Cardinality(KindIds(result, "cte-group")) >= 2

\* C3: within one returned graph, two table-source nodes of the same table
\* name, and two cte nodes of the same CTE name, carry the same colorIndex.
C3_ColorConsistency ==
  (Returned /\ IsGraph(result)) =>
    \A k, j \in NodeIdx(result) :
      LET n == result.nodes[k].data
          m == result.nodes[j].data
      IN /\ (n.kind = "table-source" /\ m.kind = "table-source"
              /\ n.tableName = m.tableName) => n.colorIndex = m.colorIndex
         /\ (n.kind = "cte" /\ m.kind = "cte"
              /\ n.cteName = m.cteName) => n.colorIndex = m.colorIndex

\* C4: a with statement whose inner statement is not a select yields the
\* error object "Only SELECT queries can be visualized." and no graph.
C4_WithNonSelectRejected ==
  (Returned /\ exc = NoExc /\ ast.type = "with" /\ ast.in.type # "select")
    => result = UnsupportedError

\* C5: a statement whose kind is neither select nor with yields exactly the
\* error object "Only SELECT queries can be visualized.", and the builder
\* holds no node and no edge.
C5_NonSelectRejected ==
  (Returned /\ exc = NoExc /\ ast.type \notin {"select", "with"}) =>
    /\ result = UnsupportedError
    /\ builder.nodes = <<>>
    /\ builder.edges = <<>>

\* An insert statement was parsed and rejected.
C5_Witness ==
  /\ Returned /\ exc = NoExc /\ ast.type = "insert"
  /\ result = UnsupportedError

\* C6: sqlToFlowGraph never lets an exception escape: an exception raised
\* by the parser or while building is returned as "Parse error: <message>",
\* and every returned value is either a graph (nodes and edges only) or an
\* error object (error only).
C6_NeverThrows ==
  /\ "thrown" \notin DOMAIN result
  /\ Returned =>
       /\ IsGraph(result) \/ IsError(result)
       /\ ~(IsGraph(result) /\ IsError(result))
       /\ exc # NoExc =>
            result = [error |-> "Parse error: " \o
                                 (IF exc.isError THEN exc.message ELSE exc.value)]
       /\ (exc = NoExc /\ ast.type \in {"select", "with"}) => IsGraph(result)

\* The parser threw and the call returned the parse error.
C6_Witness ==
  /\ Returned /\ exc.isError
  /\ result = [error |-> "Parse error: Syntax error at line 1"]

\* C7: one processCTE call adds a cte-group node first, and every
\* table-source, join, filter and aggregation node it adds carries that
\* group's id as parentCteId; processSelect of the main query adds only
\* nodes without parentCteId; neither changes the nodes added before.
C7_GroupingStep ==
  LET old == Len(builder.nodes)
      added == (old + 1)..Len(builder'.nodes)
      kept == SubSeq(builder'.nodes, 1, old) = builder.nodes
      cteStep == /\ pc = "bind" /\ bindIdx' = bindIdx + 1
                 /\ ast.bind[bindIdx].statement.type = "select"
      mainStep == pc \in {"bind", "dispatch"} /\ pc' = "build"
  IN /\ cteStep =>
          /\ kept
          /\ Len(builder'.nodes) > old
          /\ builder'.nodes[old + 1].data.kind = "cte-group"
          /\ builder'.nodes[old + 1].data.cteName = ast.bind[bindIdx].alias.name
          /\ \A k \in added :
               builder'.nodes[k].data.kind
                   \in {"table-source", "join", "filter", "aggregation"}
                 => builder'.nodes[k].parentCteId = builder'.nodes[old + 1].id
     /\ mainStep =>
          /\ kept
          /\ \A k \in added : builder'.nodes[k].parentCteId = None

C7_CteGrouping == [][C7_GroupingStep]_vars

\* A returned graph of two CTEs whose groups hold table-source, join, filter
\* and aggregation nodes, and with a table-source node of the main query.
C7_Witness ==
  /\ Returned /\ IsGraph(result)
  /\ Cardinality({n.parentCteId : n \in NodesOf(result)} \ {None}) >= 2
  /\ \A kind \in {"table-source", "join", "filter", "aggregation"} :
       \E n \in NodesOf(result) : n.data.kind = kind /\ n.parentCteId # None
  /\ \E n \in NodesOf(result) : n.data.kind = "table-source" /\ n.parentCteId = None

\* The real names of the tables of the main query's FROM list that are known
\* there as q (by table name or by alias); an entry naming a registered CTE
\* is not a table.
MainTablesKnownAs(q) ==
  {MainSelect.from[k].name.name :
     k \in {j \in 1..Len(MainSelect.from) :
              /\ MainSelect.from[j].type = "table"
              /\ ~MapHas(builder.cteRegistry, MainSelect.from[j].name.name)
              /\ (MainSelect.from[j].name.name = q \/ MainSelect.from[j].name.alias = q)}}

\* C8: for an output column of the main query that is a direct reference
\* q.c, q being the table name or the alias of a table T of the main FROM
\* list, the lineage entry is the column's alias or c with the single source
\* {table: T, column: c}, with or without schema metadata.
C8_DirectRefLineage ==
  (pc = "traced" /\ ~lineage.threw /\ MainSelect.type = "select") =>
    \A k \in 1..Len(MainSelect.columns) :
      LET col == MainSelect.columns[k]
          tables == MainTablesKnownAs(col.expr.table)
      IN (col.expr.type = "ref" /\ col.expr.table # None /\ col.expr.name # "*"
          /\ Cardinality(tables) = 1) =>
           lineage.entries[k] =
             [outputColumn |-> IF col.alias # None THEN col.alias ELSE col.expr.name,
              sources |-> <<[table |-> CHOOSE t \in tables : TRUE,
                             column |-> col.expr.name]>>]

\* C9 as stated: in Scenario C the lineage of output column s ends at table
\* orders, column total.
C9_ScenarioCEndsAtOrders ==
  (pc = "traced" /\ ast = ScenarioC) =>
    /\ ~lineage.threw
    /\ lineage.entries[2].outputColumn = "s"
    /\ lineage.entries[2].sources = <<[table |-> "orders", column |-> "total"]>>

\* C9 as amended: in Scenario C the lineage of output column s looks up the
\* CTE's output column s, which has a source column (total) but no source
\* table, and ends at the CTE boundary with {table: t, column: s}; column
\* name resolves to customers.name.
C9_ScenarioCEndsAtCte ==
  (pc = "traced" /\ ast = ScenarioC) =>
    /\ ~lineage.threw
    /\ Len(lineage.entries) = 2
    /\ lineage.entries[1] =
         [outputColumn |-> "name",
          sources |-> <<[table |-> "customers", column |-> "name"]>>]
    /\ lineage.entries[2] =
         [outputColumn |-> "s", sources |-> <<[table |-> "t", column |-> "s"]>>]
    /\ \E n \in NodesOf(result) :
         /\ n.data.kind = "cte" /\ n.data.cteName = "t"
         /\ n.data.outputColumns[2] =
              [name |-> "s", sourceTable |-> None, sourceColumn |-> "total"]

\* The lineage of Scenario C has been computed.
C9_Witness ==
  /\ pc = "traced" /\ ast = ScenarioC
  /\ Len(lineage.entries) = 2
  /\ lineage.entries[2].outputColumn = "s"

\* C10: in every returned graph no edge has a cte-group node as its source
\* or as its target.
C10_NoGroupEndpoints ==
  (Returned /\ IsGraph(result)) =>
    \A k \in EdgeIdx(result) :
      /\ result.edges[k].source \notin KindIds(result, "cte-group")
      /\ result.edges[k].target \notin KindIds(result, "cte-group")

\* A returned graph with a CTE whose body has no FROM, WHERE or GROUP BY (its
\* result node has no incoming edge) and which a later statement reads.
C10_Witness ==
  /\ Returned /\ IsGraph(result)
  /\ \E n \in NodesOf(result) :
       /\ n.data.kind = "cte"
       /\ \A k \in EdgeIdx(result) : result.edges[k].target # n.id
       /\ \E k \in EdgeIdx(result) : result.edges[k].source = n.id

\* ---------------------------------------------------------------------
\* Properties of the canvas session
\* ---------------------------------------------------------------------
\* The layout requests that have settled, and those that resolved.
SettledCalls == {i \in 1..Len(layoutCalls) : layoutCalls[i].at = "settled"}
ResolvedCalls == {i \in SettledCalls : layoutCalls[i].settled.status = "resolved"}
\* All nodes of a tree of ElkNodes.
RECURSIVE ElkNodesIn(_)
ElkNodesIn(children) ==
  UNION {{children[k]} \cup ElkNodesIn(children[k].children) : k \in 1..Len(children)}
NoGeometry(n) ==
  n.x = Undefined /\ n.y = Undefined /\ n.width = Undefined /\ n.height = Undefined

\* C11: whenever computeLayout resolves, the returned map has an entry for
\* every node id of the input graph (root-level nodes, cte-group containers
\* and nodes nested inside groups), every entry has width >= 0 and
\* height >= 0, and a node for which the solver returned no geometry has the
\* entry of the default compact size (COMPACT_WIDTH x MIN_HEIGHT) at (0, 0).
C11_LayoutComplete ==
  \A i \in ResolvedCalls :
    LET call == layoutCalls[i]
        positions == call.settled.positions
    IN \A k \in 1..Len(call.graph.nodes) :
         LET id == call.graph.nodes[k].id IN
         /\ positionsHas(positions, id)
         /\ positionsGet(positions, id).width >= 0
         /\ positionsGet(positions, id).height >= 0
         /\ \A n \in ElkNodesIn(call.outcome.children) :
              n.id = id /\ NoGeometry(n) =>
                positionsGet(positions, id) =
                  [id |-> id, x |-> 0, y |-> 0,
                   width |-> COMPACT_WIDTH, height |-> MIN_HEIGHT]

\* A layout resolved for a graph with a cte-group container and nodes nested
\* in it, from a solver result without geometry; another one with geometry.
C11_Witness ==
  /\ \E i \in ResolvedCalls :
       /\ \E k \in 1..Len(layoutCalls[i].graph.nodes) :
            layoutCalls[i].graph.nodes[k].parentCteId # None
       /\ \E k \in 1..Len(layoutCalls[i].graph.nodes) :
            layoutCalls[i].graph.nodes[k].data.kind = "cte-group"
       /\ layoutCalls[i].outcome.mode = "bare"
  /\ \E i \in ResolvedCalls :
       /\ \E k \in 1..Len(layoutCalls[i].graph.nodes) :
            layoutCalls[i].graph.nodes[k].parentCteId # None
       /\ layoutCalls[i].outcome.mode = "placed"

\* C12: the layout solver is a lazily-initialised singleton acquired once:
\* over any sequence and interleaving of computeLayout calls, also two that
\* both start before the first dynamic import has resolved, the solver's
\* constructor is invoked at most once and every call uses the same instance.
C12_SolverSingleton ==
  /\ elkConstructed <= 1
  /\ \A i, j \in 1..Len(layoutCalls) :
       layoutCalls[i].elk # 0 /\ layoutCalls[j].elk # 0 =>
         layoutCalls[i].elk = layoutCalls[j].elk

\* C13: last request wins in the canvas: once every pending layout request
\* has settled, what the canvas shows is what the most recently submitted
\* query gives: nothing for a blank query or a graph without nodes, and the
\* nodes and edges of its graph when its layout resolved.
C13_LastRequestWins ==
  pc = "idle" /\ updates > 0 /\ SettledCalls = 1..Len(layoutCalls) =>
    /\ sql.blank => display = EmptyDisplay
    /\ ~sql.blank /\ "nodes" \in DOMAIN result /\ Len(result.nodes) = 0 =>
         display = EmptyDisplay
    /\ ~sql.blank /\ "nodes" \in DOMAIN result /\ Len(result.nodes) > 0
         /\ Len(layoutCalls) \in ResolvedCalls =>
           /\ [k \in 1..Len(display.nodes) |-> display.nodes[k].id]
                = [k \in 1..Len(result.nodes) |-> result.nodes[k].id]
           /\ [k \in 1..Len(display.nodes) |-> display.nodes[k].type]
                = [k \in 1..Len(result.nodes) |-> result.nodes[k].data.kind]
           /\ [k \in 1..Len(display.edges) |-> display.edges[k].id]
                = [k \in 1..Len(result.edges) |-> result.edges[k].id]

\* C14: layout failure is all-or-nothing: when the solver call rejects,
\* computeLayout rejects with the solver's error and yields no position map,
\* neither a partial nor a degraded one (it catches nothing).
C14_LayoutFailurePropagates ==
  \A i \in SettledCalls :
    layoutCalls[i].outcome.rejected =>
      /\ layoutCalls[i].settled.status = "rejected"
      /\ layoutCalls[i].settled.error = layoutCalls[i].outcome.error
      /\ "positions" \notin DOMAIN layoutCalls[i].settled

\* The solver rejected the layout of a graph with nodes, and the canvas
\* reported the solver's error.
C14_Witness ==
  \E i \in SettledCalls :
    /\ layoutCalls[i].outcome.rejected
    /\ Len(layoutCalls[i].graph.nodes) > 1
    /\ shownError = SolverError

\* The place of the node with a given id in a graph (0 if there is none).
IdPos(g, id) == FirstIndex([k \in 1..Len(g.nodes) |-> g.nodes[k].id = id])
\* An edge without its ids: its endpoints by place, and its other fields.
EdgeShape(g, e) ==
  [source |-> IdPos(g, e.source), target |-> IdPos(g, e.target),
   animated |-> e.animated,
   columns |-> IF "columns" \in DOMAIN e THEN e.columns ELSE <<>>,
   hasColumns |-> "columns" \in DOMAIN e]
\* Same node kinds and contents in the same order, same group membership and
\* same edges, up to a relabelling of the ids.
StructurallyIdentical(g1, g2) ==
  /\ Len(g1.nodes) = Len(g2.nodes)
  /\ Len(g1.edges) = Len(g2.edges)
  /\ \A k \in 1..Len(g1.nodes) :
       /\ g1.nodes[k].data = g2.nodes[k].data
       /\ IdPos(g1, g1.nodes[k].id) = IdPos(g2, g2.nodes[k].id)
       /\ IdPos(g1, g1.nodes[k].parentCteId) = IdPos(g2, g2.nodes[k].parentCteId)
  /\ \A k \in 1..Len(g1.edges) :
       EdgeShape(g1, g1.edges[k]) = EdgeShape(g2, g2.edges[k])

\* C15: determinism and call isolation: two builds of the same statement
\* with the same schema, whatever was built between them, give structurally
\* identical graphs (node kinds in order, edges up to id relabelling, column
\* lists, color indices), and a call starts from a builder that carries no
\* counter or registry state of an earlier call.
C15_CallIsolation ==
  /\ pc = "parse" => builder = NewBuilder(schema)
  /\ \A i, j \in 1..Len(builds) :
       /\ builds[i].ast = builds[j].ast
       /\ builds[i].schema = builds[j].schema
       /\ "nodes" \in DOMAIN builds[i].result
       /\ "nodes" \in DOMAIN builds[j].result
       => StructurallyIdentical(builds[i].result, builds[j].result)

\* The same SELECT was built twice into a graph, with the CTE query, which
\* registers a CTE of the name of the table it reads, built in between.
C15_Witness ==
  /\ Len(builds) = 3
  /\ builds[1].ast = QueryPlain /\ builds[3].ast = QueryPlain
  /\ builds[2].ast = ScenarioC
  /\ \A i \in 1..3 : "nodes" \in DOMAIN builds[i].result
  /\ Len(builds[2].result.nodes) > 3

\* ---------------------------------------------------------------------
\* Properties of the FROM clause
\* ---------------------------------------------------------------------
\* A step of sqlToFlowGraph that processes one statement: a binding of the
\* WITH clause, its main query, or a top-level SELECT.
IsProcessStep ==
  \/ pc = "bind" /\ pc' \in {"bind", "build"}
  \/ pc = "dispatch" /\ pc' = "build"
\* The statement that step processes, and its FROM list.
StepStatement ==
  IF pc = "bind" /\ bindIdx <= Len(ast.bind) THEN ast.bind[bindIdx].statement
  ELSE IF pc = "bind" THEN ast.in
  ELSE ast
StepFrom == IF StepStatement.type = "select" THEN StepStatement.from ELSE <<>>
\* The names of the CTEs declared, with a SELECT body, before that statement.
DeclaredBefore ==
  IF pc = "bind"
  THEN {ast.bind[j].alias.name :
          j \in {i \in 1..(bindIdx - 1) : ast.bind[i].statement.type = "select"}}
  ELSE {}
\* The places of the nodes and edges the step adds.
StepNodes == (Len(builder.nodes) + 1)..Len(builder'.nodes)
StepEdges == (Len(builder.edges) + 1)..Len(builder'.edges)
TableEntries == {k \in 1..Len(StepFrom) : StepFrom[k].type = "table"}

\* C16: CTE names resolve in declaration order.  A FROM entry named N takes
\* the result node of CTE N, and makes no node, exactly when CTE N was
\* declared (and registered) before the statement that holds the entry; an
\* entry that names the CTE being defined, a later CTE or no CTE makes a
\* fresh table-source node.
C16_ResolutionStep ==
  IsProcessStep =>
    /\ Cardinality({i \in StepNodes : builder'.nodes[i].data.kind = "table-source"})
         = Cardinality({k \in TableEntries : StepFrom[k].name.name \notin DeclaredBefore})
    /\ \A k \in TableEntries :
         IF StepFrom[k].name.name \in DeclaredBefore
         THEN /\ ~\E i \in StepNodes :
                    /\ builder'.nodes[i].data.kind = "table-source"
                    /\ builder'.nodes[i].data.tableName = StepFrom[k].name.name
              /\ Len(StepFrom) = 1 =>
                   \E e \in StepEdges, i \in 1..Len(builder.nodes) :
                     /\ builder.nodes[i].data.kind = "cte"
                     /\ builder.nodes[i].data.cteName = StepFrom[k].name.name
                     /\ builder'.edges[e].source = builder.nodes[i].id
         ELSE \E i \in StepNodes :
                /\ builder'.nodes[i].data.kind = "table-source"
                /\ builder'.nodes[i].data.tableName = StepFrom[k].name.name
                /\ builder'.nodes[i].data.alias = StepFrom[k].name.alias
    /\ \A e \in StepEdges, i \in 1..Len(builder.nodes) :
         builder'.edges[e].source = builder.nodes[i].id =>
           /\ builder.nodes[i].data.kind = "cte"
           /\ builder.nodes[i].data.cteName \in DeclaredBefore
           /\ \E k \in TableEntries :
                StepFrom[k].name.name = builder.nodes[i].data.cteName
C16_CteResolution == [][C16_ResolutionStep]_vars

\* WITH w AS (SELECT v.x AS y FROM v JOIN t ..), v AS (SELECT w.x FROM w)
\* SELECT w.x FROM w: the forward reference to v made a table-source node
\* inside the group of w, and the later references to w made no node for w.
C16_Witness ==
  /\ pc = "done" /\ IsGraph(result)
  /\ ast.type = "with" /\ Len(ast.bind) = 2
  /\ ast.bind[1].statement = BodyFromV
  /\ ast.bind[2].statement = BodyFromW
  /\ ast.in.type = "select" /\ ast.in.from = <<Table("w", None, NoJoin)>>
  /\ \E n \in NodesOf(result) :
       n.data.kind = "table-source" /\ n.data.tableName = "v" /\ n.parentCteId # None
  /\ ~\E n \in NodesOf(result) : n.data.kind = "table-source" /\ n.data.tableName = "w"
  /\ \E n \in NodesOf(result) : n.data.kind = "cte" /\ n.data.cteName = "v"

\* The n-th element of a set of places, and the rank of a place in it.
NthOf(S, n) == CHOOSE i \in S : Cardinality({j \in S : j <= i}) = n
RankIn(S, k) == Cardinality({j \in S : j <= k})
\* The new nodes of a kind, by place.
StepNodesOfKind(kind) == {i \in StepNodes : builder'.nodes[i].data.kind = kind}
\* The table entries that declare a join and come after another table entry.
JoinEntries ==
  {k \in TableEntries :
     StepFrom[k].join.declared /\ \E j \in TableEntries : j < k}
FreshEntries == {k \in TableEntries : StepFrom[k].name.name \notin DeclaredBefore}
\* The join node made for a join entry, and the id of an entry's own node.
JoinNodeOf(k) ==
  builder'.nodes[NthOf(StepNodesOfKind("join"), RankIn(JoinEntries, k))]
EntryNodeId(k) ==
  IF k \in FreshEntries
  THEN builder'.nodes[NthOf(StepNodesOfKind("table-source"), RankIn(FreshEntries, k))].id
  ELSE builder.nodes[CHOOSE i \in 1..Len(builder.nodes) :
                       /\ builder.nodes[i].data.kind = "cte"
                       /\ builder.nodes[i].data.cteName = StepFrom[k].name.name].id
\* The last node of the chain when entry k is reached.
ChainBefore(k) ==
  LET j == CHOOSE i \in TableEntries : i < k /\ \A h \in TableEntries : h < k => h <= i
  IN IF j \in JoinEntries THEN JoinNodeOf(j).id ELSE EntryNodeId(j)
OnColumns(k) ==
  IF StepFrom[k].join.on.type # None
  THEN refColumns(extractColumnRefs(StepFrom[k].join.on)) ELSE <<>>
IncomingOf(id) == {e \in StepEdges : builder'.edges[e].target = id}

\* C17 as stated: every FROM entry that is not the first of its FROM list
\* and declares a join gets exactly one join node with exactly two incoming
\* edges.
C17_JoinForEveryLaterEntry ==
  [][IsProcessStep =>
       Cardinality({i \in StepNodesOfKind("join") :
                      Cardinality(IncomingOf(builder'.nodes[i].id)) = 2})
         = Cardinality({k \in 2..Len(StepFrom) : StepFrom[k].join.declared})]_vars

\* C17, amended: every table entry that declares a join and comes after
\* another table entry of its FROM list gets exactly one join node; the
\* node has exactly two incoming edges, the first from the last node of the
\* chain so far and the second from the entry's own node (a new
\* table-source or the reused cte node), both carrying the column names of
\* the ON condition (none without a condition); the join node is then the
\* chain's last node.  No other entry gets a join node.
C17_JoinWiringStep ==
  IsProcessStep =>
    /\ Cardinality(StepNodesOfKind("join")) = Cardinality(JoinEntries)
    /\ \A k \in JoinEntries :
         LET inc == IncomingOf(JoinNodeOf(k).id)
             e1 == CHOOSE e \in inc : \A f \in inc : e <= f
             e2 == CHOOSE e \in inc : \A f \in inc : f <= e
         IN /\ Cardinality(inc) = 2
            /\ builder'.edges[e1].source = ChainBefore(k)
            /\ builder'.edges[e2].source = EntryNodeId(k)
            /\ builder'.edges[e1].columns = OnColumns(k)
            /\ builder'.edges[e2].columns = OnColumns(k)
            /\ (\A j \in TableEntries : j <= k) =>
                 \E e \in StepEdges :
                   /\ builder'.edges[e].source = JoinNodeOf(k).id
                   /\ \E i \in StepNodes :
                        /\ builder'.nodes[i].id = builder'.edges[e].target
                        /\ builder'.nodes[i].data.kind # "join"
C17_JoinWiring == [][C17_JoinWiringStep]_vars

\* Scenario B was built: one INNER join node fed by the table-source nodes
\* of customers and orders, with the columns of c.id = o.customer_id.
C17_Witness ==
  /\ pc = "done" /\ ast = ScenarioB /\ IsGraph(result)
  /\ \E n \in NodesOf(result) :
       /\ n.data.kind = "join" /\ n.data.joinType = "INNER"
       /\ Cardinality({e \in EdgeIdx(result) : result.edges[e].target = n.id}) = 2
       /\ \A e \in EdgeIdx(result) :
            result.edges[e].target = n.id =>
              /\ result.edges[e].columns = <<"id", "customer_id">>
              /\ result.edges[e].source \in KindIds(result, "table-source")

\* The column references of an expression: qualifier and column name.
RECURSIVE RefsInExpr(_)
RefsInExpr(expr) ==
  IF expr.type = None THEN {}
  ELSE IF expr.type = "ref" THEN {[table |-> expr.table, name |-> expr.name]}
  ELSE UNION {RefsInExpr(expr.args[i]) : i \in 1..Len(expr.args)}
\* The references of a statement's SELECT list, JOIN ON conditions, WHERE,
\* GROUP BY and ORDER BY.
StatementRefs(select) ==
  UNION {RefsInExpr(select.columns[i].expr) : i \in 1..Len(select.columns)}
  \cup UNION {RefsInExpr(select.from[i].join.on) :
                i \in {j \in 1..Len(select.from) : select.from[j].type = "table"}}
  \cup RefsInExpr(select.where)
  \cup UNION {RefsInExpr(select.groupBy[i]) : i \in 1..Len(select.groupBy)}
  \cup UNION {RefsInExpr(select.orderBy[i].by) : i \in 1..Len(select.orderBy)}
\* A reference that can mean table T under alias A: qualified by A, by T, or
\* not qualified.
MayMean(r, T, A) == r.table = None \/ r.table = T \/ (A # None /\ r.table = A)
\* The columns the claim gives the node of table T with alias A in a statement.
ExpectedColumns(select, T, A) ==
  LET refs == StatementRefs(select)
      all == getSchemaColumns(builder, T)
  IN IF \E r \in refs : r.name = "*" /\ MayMean(r, T, A) THEN all
     ELSE SelectSeq(all, LAMBDA col : \E r \in refs : r.name = col.name /\ MayMean(r, T, A))

\* C18: the table-source node of table T with alias A in a statement S
\* lists, in schema order, all schema columns of T if S holds an unqualified
\* * or a wildcard qualified by A or by T, and otherwise exactly the schema
\* columns referenced in S's SELECT list, JOIN ON, WHERE, GROUP BY or ORDER
\* BY with qualifier A, with qualifier T or without qualifier; neither a
\* wildcard of another qualifier nor the references of another statement
\* change them.
C18_ColumnFilterStep ==
  IsProcessStep =>
    \A k \in FreshEntries :
      LET node == builder'.nodes[NthOf(StepNodesOfKind("table-source"),
                                       RankIn(FreshEntries, k))]
      IN /\ node.data.tableName = StepFrom[k].name.name
         /\ node.data.columns =
              ExpectedColumns(StepStatement, StepFrom[k].name.name, StepFrom[k].name.alias)
C18_ColumnFilter == [][C18_ColumnFilterStep]_vars

\* WITH w AS (SELECT * FROM t) SELECT a.* FROM u AS a INNER JOIN t ON a.x = y
\* with the schema known: t lists all its columns inside the CTE, and in
\* the main query u lists all its columns and t only y.
C18_Witness ==
  /\ pc = "done" /\ IsGraph(result) /\ schema = FullSchema
  /\ ast.type = "with" /\ ast.bind = <<Binding("w", BodyStar)>>
  /\ ast.in.type = "select"
  /\ ast.in.columns = <<Col(Ref("a", "*"), None)>>
  /\ \E n \in NodesOf(result) :
       /\ n.data.kind = "table-source" /\ n.data.tableName = "t"
       /\ n.parentCteId # None /\ Len(n.data.columns) = 2
  /\ \E n \in NodesOf(result) :
       /\ n.data.kind = "table-source" /\ n.data.tableName = "t"
       /\ n.parentCteId = None
       /\ [i \in 1..Len(n.data.columns) |-> n.data.columns[i].name] = <<"y">>
  /\ \E n \in NodesOf(result) :
       /\ n.data.kind = "table-source" /\ n.data.tableName = "u"
       /\ n.data.alias = "a" /\ Len(n.data.columns) = 2

\* ---------------------------------------------------------------------
\* Properties of the lineage
\* ---------------------------------------------------------------------
IsTableNamed(n, name) ==
  n.data.kind = "table-source" /\ (n.data.tableName = name \/ n.data.alias = name)
IsCteNamed(n, name) == n.data.kind = "cte" /\ n.data.cteName = name
KnownSource(col) == col.sourceTable # None /\ col.sourceColumn # None
Unsettled == <<[table |-> None, column |-> None]>>
\* What the claims give as the sources of a column with a known source: the
\* real table when a table-source has the name or alias; through the CTE of
\* that name otherwise, down to a real table, or the CTE's name when the
\* CTE's column has no further known source.  Unsettled: not said.
RECURSIVE ResolveKnown(_, _, _)
ResolveKnown(col, g, fuel) ==
  LET t == FirstIndex([i \in 1..Len(g.nodes) |-> IsTableNamed(g.nodes[i], col.sourceTable)])
      c == FirstIndex([i \in 1..Len(g.nodes) |-> IsCteNamed(g.nodes[i], col.sourceTable)])
  IN IF fuel = 0 THEN Unsettled
     ELSE IF t # 0
     THEN <<[table |-> g.nodes[t].data.tableName, column |-> col.sourceColumn]>>
     ELSE IF c = 0 THEN Unsettled
     ELSE LET outs == g.nodes[c].data.outputColumns
              f == FirstIndex([i \in 1..Len(outs) |-> outs[i].name = col.sourceColumn])
          IN IF f # 0 /\ KnownSource(outs[f])
             THEN ResolveKnown(outs[f], g, fuel - 1)
             ELSE <<[table |-> col.sourceTable, column |-> col.sourceColumn]>>
\* The output columns of the returned graph, and those that name a CTE that
\* no table-source shadows.
OutputColumns ==
  LET o == FirstIndex([i \in 1..Len(result.nodes) |-> result.nodes[i].data.kind = "output"])
  IN IF o = 0 THEN <<>> ELSE result.nodes[o].data.columns
CteColumns ==
  {k \in 1..Len(OutputColumns) :
     /\ KnownSource(OutputColumns[k])
     /\ \E n \in NodesOf(result) : IsCteNamed(n, OutputColumns[k].sourceTable)
     /\ ~\E n \in NodesOf(result) : IsTableNamed(n, OutputColumns[k].sourceTable)}

\* C19: lineage through CTEs.  For an output column whose sourceTable is the
\* name of a cte node and of no table-source (name or alias), the tracer
\* takes the CTE's output column named sourceColumn; if that column has a
\* known sourceTable and sourceColumn the result is what resolving it gives,
\* through any depth of nested CTEs down to a real table, and if it has no
\* further known source the result is exactly the CTE's name with
\* sourceColumn.
C19_LineageThroughCtes ==
  pc = "traced" /\ ~lineage.threw =>
    \A k \in CteColumns :
      LET expected == ResolveKnown(OutputColumns[k], result, Len(result.nodes)) IN
      expected # Unsettled =>
        /\ lineage.entries[k].outputColumn = OutputColumns[k].name
        /\ lineage.entries[k].sources = expected

\* WITH w AS (SELECT t.x, SUM(y) AS s FROM t ..), v AS (SELECT w.x FROM w)
\* SELECT v.x, w.s FROM v, w: v.x goes through v and w down to t.x, and w.s,
\* an aggregate of w, ends at the CTE's name.
C19_Witness ==
  /\ pc = "traced" /\ ~lineage.threw
  /\ ast.type = "with"
  /\ ast.bind = <<Binding("w", BodyAgg), Binding("v", BodyFromW)>>
  /\ CteColumns = {1, 2}
  /\ lineage.entries[1].sources = <<[table |-> "t", column |-> "x"]>>
  /\ lineage.entries[2].sources = <<[table |-> "w", column |-> "s"]>>

\* C20: the tracer's recursion is bounded by the number of nodes of the
\* graph: computeColumnLineage returns on every FlowGraph, also on one whose
\* edges form a cycle, and never recurses until the call stack is used up.
C20_BoundedRecursion ==
  pc = "traced" => ~lineage.threw

\* ---------------------------------------------------------------------
\* Properties of the pipeline of one statement
\* ---------------------------------------------------------------------
\* The last node of the FROM chain of the step's statement (None if its FROM
\* list has no table entry).
LastTableEntry == CHOOSE k \in TableEntries : \A j \in TableEntries : j <= k
FromLast ==
  IF TableEntries = {} THEN None
  ELSE IF LastTableEntry \in JoinEntries THEN JoinNodeOf(LastTableEntry).id
  ELSE EntryNodeId(LastTableEntry)
\* The sources of the edges into a node, over all edges after the step.
SourcesInto(id) ==
  LET into == SelectSeq(builder'.edges, LAMBDA e : e.target = id)
  IN [k \in 1..Len(into) |-> into[k].source]
\* The only new node of a kind.
TheStepNode(kind) == builder'.nodes[CHOOSE i \in StepNodesOfKind(kind) : TRUE]
StepHasWhere == StepStatement.where.type # None
StepHasGroupBy == Len(StepStatement.groupBy) > 0
\* The node the statement's pipeline ends in: the output node of a main
\* query, the cte result node of a binding.
StepEndKind == IF pc = "bind" /\ bindIdx <= Len(ast.bind) THEN "cte" ELSE "output"
\* The last node before the end node.
StepLastStage ==
  IF StepHasGroupBy THEN TheStepNode("aggregation").id
  ELSE IF StepHasWhere THEN TheStepNode("filter").id
  ELSE FromLast

\* C21: pipeline order.  In a statement whose FROM list yields a last node,
\* WHERE (if present) makes one filter node with exactly one incoming edge,
\* from the last node of the FROM chain; GROUP BY (if not empty) makes one
\* aggregation node with exactly one incoming edge, from the filter node if
\* there is one and from the last node of the FROM chain otherwise; the only
\* edge into the output node (or the cte result node) comes from the last of
\* these; and the aggregation never comes before the filter.
C21_PipelineStep ==
  (IsProcessStep /\ StepStatement.type = "select" /\ FromLast # None) =>
    /\ Cardinality(StepNodesOfKind("filter")) = (IF StepHasWhere THEN 1 ELSE 0)
    /\ Cardinality(StepNodesOfKind("aggregation")) = (IF StepHasGroupBy THEN 1 ELSE 0)
    /\ Cardinality(StepNodesOfKind(StepEndKind)) = 1
    /\ StepHasWhere => SourcesInto(TheStepNode("filter").id) = <<FromLast>>
    /\ StepHasGroupBy =>
         SourcesInto(TheStepNode("aggregation").id) =
           <<IF StepHasWhere THEN TheStepNode("filter").id ELSE FromLast>>
    /\ SourcesInto(TheStepNode(StepEndKind).id) = <<StepLastStage>>
    /\ (StepHasWhere /\ StepHasGroupBy) =>
         \A i \in StepNodesOfKind("filter"), j \in StepNodesOfKind("aggregation") : i < j
C21_PipelineOrder == [][C21_PipelineStep]_vars

\* A main query with a join, WHERE and GROUP BY was built: the join feeds
\* the filter, the filter the aggregation and the aggregation the output.
C21_Witness ==
  /\ pc = "done" /\ IsGraph(result)
  /\ \E j \in KindIds(result, "join"), f \in KindIds(result, "filter"),
        a \in KindIds(result, "aggregation"), o \in KindIds(result, "output") :
       /\ \E e \in EdgeIdx(result) : result.edges[e].source = j /\ result.edges[e].target = f
       /\ \E e \in EdgeIdx(result) : result.edges[e].source = f /\ result.edges[e].target = a
       /\ \E e \in EdgeIdx(result) : result.edges[e].source = a /\ result.edges[e].target = o
       /\ \A n \in NodesOf(result) : n.id \in {j, f, a} => n.parentCteId = None

\* ---------------------------------------------------------------------
\* Properties of the backward walk
\* ---------------------------------------------------------------------
\* The predecessors of a node, in the order of the graph's edges.
Predecessors(g, id) ==
  LET at == SelectSeq([e \in 1..Len(g.edges) |-> e], LAMBDA e : g.edges[e].target = id)
  IN [k \in 1..Len(at) |-> g.edges[at[k]].source]
NodeWithId(g, id) == CHOOSE n \in NodesOf(g) : n.id = id
\* What a table-source gives for a column: the first of its columns named as
\* the column or as its sourceColumn.
TableMatch(n, col) ==
  IF n.data.kind # "table-source" THEN <<>>
  ELSE LET m == {i \in 1..Len(n.data.columns) :
                   n.data.columns[i].name \in {col.name, col.sourceColumn}}
       IN IF m = {} THEN <<>>
          ELSE <<[table |-> n.data.tableName,
                  column |-> n.data.columns[CHOOSE i \in m : \A j \in m : i <= j].name]>>
\* The walk the claim describes, from node id backwards; fuel bounds its
\* depth by the number of nodes of an acyclic graph.
RECURSIVE BackwardWalk(_, _, _, _)
BackwardWalk(col, id, g, fuel) ==
  LET preds == Predecessors(g, id)
      found == [k \in 1..Len(preds) |->
                  IF TableMatch(NodeWithId(g, preds[k]), col) # <<>>
                  THEN TableMatch(NodeWithId(g, preds[k]), col)
                  ELSE IF fuel = 0 THEN <<>>
                  ELSE BackwardWalk(col, preds[k], g, fuel - 1)]
      first == FirstIndex([k \in 1..Len(preds) |-> found[k] # <<>>])
  IN IF first = 0 THEN <<>> ELSE found[first]
\* The output columns that their sourceTable does not resolve: no known
\* source, or a sourceTable that names no table-source and no cte node.
WalkedColumns ==
  {k \in 1..Len(OutputColumns) :
     \/ ~KnownSource(OutputColumns[k])
     \/ ~\E n \in NodesOf(result) :
           \/ IsTableNamed(n, OutputColumns[k].sourceTable)
           \/ IsCteNamed(n, OutputColumns[k].sourceTable)}
OutputNodeId ==
  result.nodes[FirstIndex([i \in 1..Len(result.nodes) |->
                             result.nodes[i].data.kind = "output"])].id

\* C22: backward lineage walk.  For a column that its sourceTable does not
\* resolve, the tracer visits the predecessors of the current node in edge
\* insertion order; a predecessor that is a table-source with a column named
\* as the traced column or as its sourceColumn ends the search with that
\* table and column, any other predecessor is searched recursively; the
\* first non-empty result wins, and the sources are empty if no predecessor
\* path gives one.
C22_BackwardWalk ==
  pc = "traced" /\ ~lineage.threw =>
    \A k \in WalkedColumns :
      lineage.entries[k].sources =
        BackwardWalk(OutputColumns[k], OutputNodeId, result, Len(result.nodes))

\* A traced graph in which a walked column was found by its sourceColumn
\* behind a node that is no table-source, a second walked column has no
\* source at all, and the output node's pipeline has a join with two
\* table-sources that both hold the first column's name.
C22_Witness ==
  /\ pc = "traced" /\ ~lineage.threw
  /\ \E k \in WalkedColumns :
       /\ Len(lineage.entries[k].sources) = 1
       /\ OutputColumns[k].name # lineage.entries[k].sources[1].column
       /\ \A i \in 1..Len(Predecessors(result, OutputNodeId)) :
            NodeWithId(result, Predecessors(result, OutputNodeId)[i]).data.kind
              \in {"filter", "aggregation"}
       /\ \E j \in KindIds(result, "join") :
            Cardinality({p \in KindIds(result, "table-source") :
                           /\ \E e \in EdgeIdx(result) :
                                result.edges[e].source = p /\ result.edges[e].target = j
                           /\ TableMatch(NodeWithId(result, p), OutputColumns[k]) # <<>>}) = 2
  /\ \E k \in WalkedColumns : lineage.entries[k].sources = <<>>

\* ---------------------------------------------------------------------
\* Properties of the lineage list
\* ---------------------------------------------------------------------
\* The name the SELECT list gives its k-th column.
SelectListName(select, k) ==
  LET c == select.columns[k]
  IN IF c.alias # None THEN c.alias
     ELSE IF c.expr.type = "ref" THEN c.expr.name
     ELSE exprToSql(c.expr)

\* C23: computeColumnLineage returns exactly one entry per column of the
\* output node, in the order of the output node's columns (the order of the
\* SELECT list), each with outputColumn equal to that column's name; for a
\* graph without output node it returns the empty list.
C23_OneEntryPerColumn ==
  pc = "traced" /\ ~lineage.threw =>
    IF KindIds(result, "output") = {}
    THEN lineage.entries = <<>>
    ELSE /\ Len(lineage.entries) = Len(OutputColumns)
         /\ Len(OutputColumns) = Len(MainSelect.columns)
         /\ \A k \in 1..Len(OutputColumns) :
              /\ lineage.entries[k].outputColumn = OutputColumns[k].name
              /\ lineage.entries[k].outputColumn = SelectListName(MainSelect, k)

\* A traced graph whose SELECT list has two columns of different names, the
\* first with a source and the second without one.
C23_Witness ==
  /\ pc = "traced" /\ ~lineage.threw
  /\ Len(MainSelect.columns) = 2
  /\ Len(lineage.entries) = 2
  /\ lineage.entries[1].outputColumn # lineage.entries[2].outputColumn
  /\ lineage.entries[1].sources # <<>>
  /\ lineage.entries[2].sources = <<>>

\* ---------------------------------------------------------------------
\* Properties of the graph handed to the layout solver
\* ---------------------------------------------------------------------
\* The ids of the cte-group nodes of a graph, and the list a node or an edge
\* belongs to by the claim: a group's id, or "root".
GroupsOf(g) == KindIds(g, "cte-group")
NodeHome(g, n) == IF n.parentCteId \in GroupsOf(g) THEN n.parentCteId ELSE "root"
EdgeHome(g, e) ==
  IF /\ NodeWithId(g, e.source).parentCteId = NodeWithId(g, e.target).parentCteId
     /\ NodeWithId(g, e.source).parentCteId \in GroupsOf(g)
  THEN NodeWithId(g, e.source).parentCteId
  ELSE "root"
\* The ElkNode that holds the lists of a home: the root, or the root's child
\* of that id.
Holder(t, home) ==
  IF home = "root" THEN t
  ELSE t.children[CHOOSE k \in 1..Len(t.children) : t.children[k].id = home]
\* The ids of a sequence of ElkNodes, and the edges of a list by id and ends.
IdsOf(children) == [k \in 1..Len(children) |-> children[k].id]
EndsOf(edges) ==
  [k \in 1..Len(edges) |->
     [id |-> edges[k].id, source |-> edges[k].sources, target |-> edges[k].targets]]
\* The edges and the plain nodes of a graph that belong to a home, in order.
EdgesAt(g, home) ==
  LET at == SelectSeq(g.edges, LAMBDA e : EdgeHome(g, e) = home)
  IN [k \in 1..Len(at) |->
        [id |-> at[k].id, source |-> <<at[k].source>>, target |-> <<at[k].target>>]]
PlainAt(g, home) ==
  LET at == SelectSeq(g.nodes,
              LAMBDA n : n.data.kind # "cte-group" /\ NodeHome(g, n) = home)
  IN [k \in 1..Len(at) |-> at[k].id]
GroupSeq(g) ==
  LET at == SelectSeq(g.nodes, LAMBDA n : n.data.kind = "cte-group")
  IN [k \in 1..Len(at) |-> at[k].id]
\* The number of edges in all edge lists of a tree of ElkNodes.
RECURSIVE EdgesHanded(_)
EdgesHanded(n) ==
  IF Len(n.children) = 0 THEN Len(n.edges)
  ELSE Len(n.edges) + EdgesHanded([n EXCEPT !.edges = <<>>, !.children = Tail(@)])
       + EdgesHanded(Head(n.children))
PartitionHolds(g, t) ==
  /\ EdgesHanded(t) = Len(g.edges)
  /\ \A home \in GroupsOf(g) \cup {"root"} :
       EndsOf(Holder(t, home).edges) = EdgesAt(g, home)
  /\ IdsOf(t.children) = PlainAt(g, "root") \o GroupSeq(g)
  /\ \A home \in GroupsOf(g) :
       /\ Cardinality({k \in 1..Len(t.children) : t.children[k].id = home}) = 1
       /\ IdsOf(Holder(t, home).children) = PlainAt(g, home)
       /\ \A k \in 1..Len(Holder(t, home).children) :
            /\ Holder(t, home).children[k].children = <<>>
            /\ Holder(t, home).children[k].edges = <<>>

\* C24: layout edge partition.  Every edge of the input graph is handed to
\* the solver exactly once: in the edge list of group G if and only if both
\* its endpoints have parentCteId G and G is the id of a cte-group node of
\* the graph, and in the root edge list otherwise.  Likewise every node that
\* is no group is in exactly one children list (its group's if its
\* parentCteId names a group of the graph, the root's otherwise), and every
\* cte-group node is a child of the root.
C24_LayoutPartition ==
  \A i \in 1..Len(layoutCalls) :
    PartitionHolds(layoutCalls[i].graph, layoutCalls[i].elkGraph)

\* A layout request for a graph with two CTE groups, an edge inside a
\* group, an edge from one group into the other and an edge from a group to
\* a node outside every group.
C24_Witness ==
  \E i \in 1..Len(layoutCalls) :
    LET g == layoutCalls[i].graph IN
    /\ Cardinality(GroupsOf(g)) = 2
    /\ \E e \in EdgeIdx(g) : EdgeHome(g, g.edges[e]) # "root"
    /\ \E e \in EdgeIdx(g) :
         /\ NodeWithId(g, g.edges[e].source).parentCteId \in GroupsOf(g)
         /\ NodeWithId(g, g.edges[e].target).parentCteId \in GroupsOf(g)
         /\ EdgeHome(g, g.edges[e]) = "root"
    /\ \E e \in EdgeIdx(g) :
         /\ NodeWithId(g, g.edges[e].source).parentCteId \in GroupsOf(g)
         /\ NodeWithId(g, g.edges[e].target).parentCteId \notin GroupsOf(g)
    /\ Len(layoutCalls[i].elkGraph.edges) >= 2

\* ---------------------------------------------------------------------
\* Properties of FROM entries that are no table references
\* ---------------------------------------------------------------------
\* The statement without the FROM entries that are no table references.
TablesOnly(select) ==
  [select EXCEPT !.from = SelectSeq(@, LAMBDA item : item.type = "table")]
\* What the step's statement adds to the builder when given as tables only.
StepOfTablesOnly ==
  IF pc = "bind" /\ bindIdx <= Len(ast.bind)
  THEN processCTE(builder, ast.bind[bindIdx].alias.name, TablesOnly(StepStatement))
  ELSE processSelect(builder, TablesOnly(StepStatement))
SkippedEntries == {k \in 1..Len(StepFrom) : StepFrom[k].type # "table"}

\* C25: a FROM entry that is no table reference (a subquery or a function
\* call in FROM) is silently skipped: it makes no node and no edge, raises
\* no error and leaves the last node of the chain as it was, and the build
\* still returns a FlowGraph in which the other entries are processed as
\* they are without it.
C25_SkipStep ==
  (IsProcessStep /\ StepStatement.type = "select" /\ SkippedEntries # {}) =>
    /\ builder' = StepOfTablesOnly
    /\ Cardinality(StepNodesOfKind("table-source")) = Cardinality(FreshEntries)
    /\ Cardinality(StepNodesOfKind("join")) <= Cardinality(TableEntries)
    /\ \A e \in StepEdges :
         \/ \E k \in TableEntries : builder'.edges[e].source = EntryNodeId(k)
         \/ \E i \in StepNodes :
              /\ builder'.nodes[i].id = builder'.edges[e].source
              /\ builder'.nodes[i].data.kind \in {"join", "filter", "aggregation"}
C25_SubqueryReturns ==
  (pc = "build" /\ ast.type = "select"
   /\ \E k \in 1..Len(ast.from) : ast.from[k].type # "table") =>
    /\ exc = NoExc
    /\ Cardinality({i \in 1..Len(builder.nodes) : builder.nodes[i].data.kind = "output"}) = 1
C25_NonTableSkipped == [][C25_SkipStep]_vars /\ []C25_SubqueryReturns

\* SELECT .. FROM t, (SELECT ..) q WHERE .. was built into a graph: one
\* table-source, which feeds the filter, and no other node for the FROM list.
C25_Witness ==
  /\ pc = "done" /\ IsGraph(result)
  /\ ast.type = "select" /\ Len(ast.from) = 2
  /\ ast.from[1].type = "table" /\ ast.from[2] = SubqueryFrom
  /\ ast.where.type # None
  /\ Cardinality(KindIds(result, "table-source")) = 1
  /\ KindIds(result, "join") = {}
  /\ \E t \in KindIds(result, "table-source"), f \in KindIds(result, "filter") :
       \E e \in EdgeIdx(result) : result.edges[e].source = t /\ result.edges[e].target = f

\* ---------------------------------------------------------------------
\* Properties of the lineage of built graphs
\* ---------------------------------------------------------------------
\* C26: computeColumnLineage returns a list for every FlowGraph the builder
\* makes from a parseable WITH / SELECT statement, also when the select list
\* of a CTE refers to a column qualified by the name of that CTE.
C26_LineageReturns ==
  (pc = "traced" /\ ast.type \in {"with", "select"}) =>
    /\ ~lineage.threw
    /\ Len(lineage.entries) = Len(OutputColumns)

\* C27: edge ids are unique within every built graph: no two edges of a
\* returned FlowGraph have the same id, also when the same CTE is referenced
\* on both sides of a join or more than once in a FROM list.
C27_UniqueEdgeIds ==
  (Returned /\ IsGraph(result)) =>
    \A i, j \in EdgeIdx(result) :
      result.edges[i].id = result.edges[j].id => i = j

\* The tables that alias A denotes in the main query's FROM list (entries
\* that make a table-source node, not references to a CTE).
MainTablesAliased(A) ==
  {MainSelect.from[k].name.name :
     k \in {j \in 1..Len(MainSelect.from) :
              /\ MainSelect.from[j].type = "table"
              /\ ~MapHas(builder.cteRegistry, MainSelect.from[j].name.name)
              /\ MainSelect.from[j].name.alias = A}}
\* The places of the main query's columns that are direct references A.c
\* with A the alias of exactly one table of the main FROM list.
AliasedColumns ==
  {k \in 1..Len(MainSelect.columns) :
     /\ MainSelect.columns[k].expr.type = "ref"
     /\ MainSelect.columns[k].expr.table # None
     /\ MainSelect.columns[k].expr.name # "*"
     /\ Cardinality(MainTablesAliased(MainSelect.columns[k].expr.table)) = 1}

\* C28: alias scoping in the lineage.  An output column of the main query
\* qualified with alias A resolves to the table that A denotes in the main
\* query's FROM list, also when the same alias (or a table of that name) is
\* used for another table inside the body of an earlier CTE.
C28_AliasScoping ==
  (pc = "traced" /\ ~lineage.threw /\ MainSelect.type = "select") =>
    \A k \in AliasedColumns :
      /\ Len(lineage.entries[k].sources) = 1
      /\ lineage.entries[k].sources[1].table
           \in MainTablesAliased(MainSelect.columns[k].expr.table)

\* ---------------------------------------------------------------------
\* Properties that compare the lineage of two statements
\* ---------------------------------------------------------------------
\* sqlToFlowGraph for a statement that parses and whose visitor does not
\* fail: the bindings with a SELECT body in order, then the main query.
RECURSIVE AfterBindings(_, _, _)
AfterBindings(b, bind, k) ==
  IF k > Len(bind) THEN b
  ELSE AfterBindings(IF bind[k].statement.type = "select"
                     THEN processCTE(b, bind[k].alias.name, bind[k].statement)
                     ELSE b,
                     bind, k + 1)
BuiltGraph(a, sch) ==
  IF a.type = "with"
  THEN build(IF a.in.type = "select"
             THEN processSelect(AfterBindings(NewBuilder(sch), a.bind, 1), a.in)
             ELSE AfterBindings(NewBuilder(sch), a.bind, 1))
  ELSE build(processSelect(NewBuilder(sch), a))
\* An expression with qualifier A replaced by qualifier N.
RECURSIVE Requalified(_, _, _)
Requalified(expr, A, N) ==
  IF expr.type = None THEN expr
  ELSE IF expr.type = "ref" THEN (IF expr.table = A THEN [expr EXCEPT !.table = N] ELSE expr)
  ELSE [expr EXCEPT !.args = [i \in 1..Len(expr.args) |-> Requalified(expr.args[i], A, N)]]
\* The main query reads one CTE under an alias and nothing else.
ReadsCteAliased ==
  /\ ast.type = "with" /\ ast.in.type = "select"
  /\ Len(ast.in.from) = 1
  /\ ast.in.from[1].type = "table"
  /\ ast.in.from[1].name.alias # None
  /\ ast.in.from[1].name.alias # ast.in.from[1].name.name
  /\ \E j \in 1..Len(ast.bind) :
       /\ ast.bind[j].statement.type = "select"
       /\ ast.bind[j].alias.name = ast.in.from[1].name.name
\* The same statement with the CTE read under its own name.
WithoutAlias ==
  LET A == ast.in.from[1].name.alias
      N == ast.in.from[1].name.name
  IN [ast EXCEPT
        !.in.from = <<Table(N, None, ast.in.from[1].join)>>,
        !.in.columns = [k \in 1..Len(@) |->
                          [@[k] EXCEPT !.expr = Requalified(@, A, N)]],
        !.in.where = Requalified(@, A, N),
        !.in.groupBy = [k \in 1..Len(@) |-> Requalified(@[k], A, N)]]
\* The places of the main query's columns that are direct references A.col.
ColumnsByAlias ==
  {k \in 1..Len(ast.in.columns) :
     /\ ast.in.columns[k].expr.type = "ref"
     /\ ast.in.columns[k].expr.table = ast.in.from[1].name.alias
     /\ ast.in.columns[k].expr.name # "*"}

\* C29: the lineage does not depend on the alias of a CTE.  For a main query
\* that reads a CTE under an alias (FROM cte_name AS a) and selects a.col,
\* the lineage of that output column equals the lineage the column has when
\* it is selected as cte_name.col from the CTE read without alias.
C29_AliasIndependence ==
  (pc = "traced" /\ ~lineage.threw /\ ReadsCteAliased) =>
    \A k \in ColumnsByAlias :
      LET other == computeColumnLineage(BuiltGraph(WithoutAlias, schema))
      IN ~other.threw => lineage.entries[k].sources = other.entries[k].sources

\* ---------------------------------------------------------------------
\* Properties of the connection of the main query
\* ---------------------------------------------------------------------
\* The ids of the nodes from which a node of the set S is reached along the
\* edges of g, S included.
RECURSIVE ReachesInto(_, _)
ReachesInto(g, S) ==
  LET more == S \cup {g.edges[e].source : e \in {i \in EdgeIdx(g) : g.edges[i].target \in S}}
  IN IF more = S THEN S ELSE ReachesInto(g, more)
\* The nodes the main query made: those outside every CTE group that are
\* table-source, join, filter or aggregation nodes.
MainQueryNodes(g) ==
  {n \in NodesOf(g) :
     /\ n.parentCteId = None
     /\ n.data.kind \in {"table-source", "join", "filter", "aggregation"}}

====
